---------------------------- MODULE Spec2Model ----------------------------
(***************************************************************************)
(* Backtest engine of trading_bot: the ledger of StrategyBase.step, the    *)
(* bar replay of run_backtest_multi and the strategies' _decide rules.     *)
(*                                                                         *)
(* Numbers are binary floating-point values m * 2^e rounded to nearest,    *)
(* ties to even, after every operation, as Python's float is; the          *)
(* significand has MantBits bits instead of 53.                            *)
(***************************************************************************)
EXTENDS Integers, Sequences, FiniteSets

(***************************************************************************)
(* Bounds of the model.                                                    *)
(***************************************************************************)
MantBits == 10
NBars == 4

(***************************************************************************)
(* Floating-point numbers.  A finite value is [k |-> "fin", m, e] with m   *)
(* odd (or m = 0 and e = 0), so that equal values are equal records.       *)
(***************************************************************************)
RECURSIVE Pow2(_)
Pow2(n) == IF n <= 0 THEN 1 ELSE 2 * Pow2(n - 1)

RECURSIVE BitLen(_)
BitLen(n) == IF n = 0 THEN 0 ELSE 1 + BitLen(n \div 2)

Abs(n) == IF n < 0 THEN -n ELSE n

Sgn(n) == IF n < 0 THEN -1 ELSE IF n = 0 THEN 0 ELSE 1

NaN == [k |-> "nan", m |-> 0, e |-> 0]

NegInf == [k |-> "ninf", m |-> 0, e |-> 0]

None == [k |-> "none", m |-> 0, e |-> 0]

Zero == [k |-> "fin", m |-> 0, e |-> 0]

IsFin(x) == x.k = "fin"

IsNaN(x) == x.k = "nan"

RECURSIVE Strip(_, _)
Strip(m, e) ==
    IF m = 0 THEN Zero
    ELSE IF m % 2 = 0 THEN Strip(m \div 2, e + 1)
    ELSE [k |-> "fin", m |-> m, e |-> e]

\* The value M * 2^E rounded to MantBits significant bits, ties to even.
Round(M, E) ==
    LET a == Abs(M)
        l == BitLen(a)
        s == l - MantBits
        q == a \div Pow2(s)
        r == a % Pow2(s)
        h == Pow2(s - 1)
        up == r > h \/ (r = h /\ q % 2 = 1)
    IN  IF s <= 0 THEN Strip(M, E)
        ELSE Strip(Sgn(M) * (IF up THEN q + 1 ELSE q), E + s)

FInt(n) == Round(n, 0)

FNeg(x) == IF IsFin(x) THEN [x EXCEPT !.m = -x.m] ELSE x

\* Exponent of the bit above the leading bit: |x| < 2^Top(x).
Top(x) == x.e + BitLen(Abs(x.m))

FMul(x, y) ==
    IF ~IsFin(x) \/ ~IsFin(y) THEN NaN
    ELSE Round(x.m * y.m, x.e + y.e)

\* x / y for y # 0: the quotient to MantBits + 2 bits and a sticky bit.
FDiv(x, y) ==
    IF ~IsFin(x) \/ ~IsFin(y) \/ y.m = 0 THEN NaN
    ELSE IF x.m = 0 THEN Zero
    ELSE LET s == MantBits + 2 + BitLen(Abs(y.m)) - BitLen(Abs(x.m))
             a == Abs(x.m) * Pow2(s)
             q == a \div Abs(y.m)
             r == a % Abs(y.m)
         IN  Round(Sgn(x.m) * Sgn(y.m) * (2 * q + (IF r = 0 THEN 0 ELSE 1)),
                   x.e - y.e - s - 1)

\* x + y for finite x, y with Top(x) >= Top(y), both non-zero.
AddOrdered(x, y) ==
    IF Top(x) - Top(y) > MantBits + 1
    THEN LET s == MantBits + 2 - BitLen(Abs(x.m))
         IN  Round(2 * x.m * Pow2(s) + Sgn(y.m), x.e - s - 1)
    ELSE LET lo == IF x.e < y.e THEN x.e ELSE y.e
         IN  Round(x.m * Pow2(x.e - lo) + y.m * Pow2(y.e - lo), lo)

FAdd(x, y) ==
    IF ~IsFin(x) \/ ~IsFin(y) THEN NaN
    ELSE IF x.m = 0 THEN y
    ELSE IF y.m = 0 THEN x
    ELSE IF Top(x) >= Top(y) THEN AddOrdered(x, y)
    ELSE AddOrdered(y, x)

FSub(x, y) == FAdd(x, FNeg(y))

\* -1, 0, 1 as x is below, equal to, above y (finite x, y).
Cmp(x, y) ==
    IF Sgn(x.m) # Sgn(y.m) THEN (IF Sgn(x.m) < Sgn(y.m) THEN -1 ELSE 1)
    ELSE IF x.m = 0 THEN 0
    ELSE IF Top(x) # Top(y)
         THEN (IF Top(x) < Top(y) THEN -Sgn(x.m) ELSE Sgn(x.m))
    ELSE LET lo == IF x.e < y.e THEN x.e ELSE y.e
             a == x.m * Pow2(x.e - lo)
             b == y.m * Pow2(y.e - lo)
         IN  IF a < b THEN -1 ELSE IF a = b THEN 0 ELSE 1

\* Python's comparisons: every comparison with NaN is false.
FLt(x, y) ==
    IF IsNaN(x) \/ IsNaN(y) THEN FALSE
    ELSE IF y.k = "ninf" THEN FALSE
    ELSE IF x.k = "ninf" THEN TRUE
    ELSE Cmp(x, y) < 0

FGt(x, y) == FLt(y, x)

FLe(x, y) ==
    IF IsNaN(x) \/ IsNaN(y) THEN FALSE
    ELSE IF x.k = "ninf" THEN TRUE
    ELSE IF y.k = "ninf" THEN FALSE
    ELSE Cmp(x, y) <= 0

FGe(x, y) == FLe(y, x)

PosInf == [k |-> "pinf", m |-> 0, e |-> 0]

\* numpy's x / y: a division by zero gives an infinity, 0 / 0 gives NaN.
NpDiv(x, y) ==
    IF IsNaN(x) \/ IsNaN(y) THEN NaN
    ELSE IF ~IsFin(y) THEN (IF IsFin(x) THEN Zero ELSE NaN)
    ELSE IF ~IsFin(x) THEN x
    ELSE IF y.m = 0
    THEN (IF x.m = 0 THEN NaN ELSE IF x.m > 0 THEN PosInf ELSE NegInf)
    ELSE FDiv(x, y)

\* numpy's x + y where one of the terms may be an infinity.
NpAdd(x, y) ==
    IF IsNaN(x) \/ IsNaN(y) THEN NaN
    ELSE IF ~IsFin(x) THEN (IF IsFin(y) \/ y = x THEN x ELSE NaN)
    ELSE IF ~IsFin(y) THEN y
    ELSE FAdd(x, y)

\* The largest r with r * r <= a.
RECURSIVE ISqrt(_)
ISqrt(a) ==
    IF a < 2 THEN a
    ELSE LET s == 2 * ISqrt(a \div 4)
         IN  IF (s + 1) * (s + 1) <= a THEN s + 1 ELSE s

\* The square root, correctly rounded: the root of the significand
\* widened to 2 * MantBits + 4 bits and a sticky bit.
FSqrt(x) ==
    IF ~IsFin(x) \/ x.m < 0 THEN NaN
    ELSE IF x.m = 0 THEN Zero
    ELSE LET k0 == 2 * MantBits + 4 - BitLen(x.m)
             k == IF (x.e - k0) % 2 = 0 THEN k0 ELSE k0 + 1
             a == x.m * Pow2(k)
             r == ISqrt(a)
         IN  Round(2 * r + (IF r * r = a THEN 0 ELSE 1), ((x.e - k) \div 2) - 1)

\* Fixed-point numbers of the logarithm and the exponential: FixBits
\* fraction bits.
FixBits == MantBits + 3

\* b fraction bits of log2(z / 2^FixBits), 1 <= z / 2^FixBits < 2, by
\* repeated squaring.
RECURSIVE LogBits(_, _)
LogBits(z, b) ==
    IF b = 0 THEN 0
    ELSE LET s == (z * z) \div Pow2(FixBits)
         IN  IF s >= Pow2(FixBits + 1)
             THEN Pow2(b - 1) + LogBits(s \div 2, b - 1)
             ELSE LogBits(s, b - 1)

\* log2(x) for a finite x > 0, to MantBits + 2 fraction bits.
Log2(x) ==
    LET l == BitLen(x.m)
        b == MantBits + 2
    IN  Round((x.e + l - 1) * Pow2(b) + LogBits(x.m * Pow2(FixBits - (l - 1)), b),
              -b)

\* 2^(f / 2^FixBits) * 2^FixBits for 0 <= f < 2^FixBits: the product of the
\* roots 2^(1/2), 2^(1/4), ... selected by the bits of f; c is the root of
\* bit i, p the product so far.
RECURSIVE ExpBits(_, _, _, _)
ExpBits(f, i, c, p) ==
    IF i > FixBits THEN p
    ELSE LET bit == (f \div Pow2(FixBits - i)) % 2
         IN  ExpBits(f, i + 1, ISqrt(c * Pow2(FixBits)),
                     IF bit = 1 THEN (p * c) \div Pow2(FixBits) ELSE p)

\* The exponent from which on a float is out of range (2^1024 in Python).
MaxExp == 1024

Overflow == [k |-> "raise", m |-> 0, e |-> 0]

\* 2^t for a finite t; Overflow from 2^MaxExp on, 0 below 2^(-MaxExp - 64).
Exp2(t) ==
    IF t.m > 0 /\ Top(t) > 10 THEN Overflow
    ELSE IF t.m < 0 /\ Top(t) > 11 THEN Zero
    ELSE IF Top(t) < -FixBits THEN FInt(1)
    ELSE LET n == IF t.e >= 0 THEN t.m * Pow2(t.e) ELSE t.m \div Pow2(-t.e)
             r == IF t.e >= 0 THEN 0 ELSE t.m % Pow2(-t.e)
             f == IF t.e >= 0 THEN 0
                  ELSE IF -t.e <= FixBits THEN r * Pow2(FixBits + t.e)
                  ELSE r \div Pow2(-t.e - FixBits)
         IN  IF n >= MaxExp THEN Overflow
             ELSE IF n < -MaxExp - 64 THEN Zero
             ELSE Round(ExpBits(f, 1, ISqrt(Pow2(2 * FixBits + 1)), Pow2(FixBits)),
                        n - FixBits)

\* The complex result of a negative float raised to a fractional power.
Complex == [k |-> "complex", m |-> 0, e |-> 0]

\* Python's x ** y for floats: 2^(y * log2(|x|)) to the precision of the
\* model, with the sign of x for an odd integer y; OverflowError when the
\* result is out of range; a complex number for x < 0 and a fractional y.
FPow(x, y) ==
    IF ~IsFin(x) \/ ~IsFin(y) THEN NaN
    ELSE IF y.m = 0 \/ x = FInt(1) THEN FInt(1)
    ELSE IF x.m = 0 THEN (IF y.m > 0 THEN Zero ELSE Overflow)
    ELSE IF x.m > 0 THEN Exp2(FMul(y, Log2(x)))
    ELSE IF y.e < 0 THEN Complex
    ELSE LET r == Exp2(FMul(y, Log2(FNeg(x))))
         IN  IF y.e = 0 /\ IsFin(r) THEN FNeg(r) ELSE r

(***************************************************************************)
(* Bars and series.  A timestamp is the number of the bar's row; a bar     *)
(* with no data has NaN in every column.                                   *)
(***************************************************************************)
Bar(t, h, l, c) == [ts |-> t, high |-> h, low |-> l, close |-> c]

FlatBar(t, c) == Bar(t, c, c, c)

\* The column values a bar of the model can have.
Prices == {FInt(9), FInt(10), FInt(12), NaN}

Series ==
    {[p \in 1..NBars |-> FlatBar(p, f[p])] : f \in [1..NBars -> Prices]}

Last(q) == q[Len(q)]

Max2(a, b) == IF a >= b THEN a ELSE b

\* Python's max(a, b): b when b > a, else a (so a NaN in b is dropped).
PyMax(a, b) == IF FGt(b, a) THEN b ELSE a

FAbs(x) == IF IsFin(x) THEN [x EXCEPT !.m = Abs(x.m)] ELSE x

(***************************************************************************)
(* Indicators over the rows 1..p of a frame: rolling windows of pandas,    *)
(* which have no value until the window holds w values that are not NaN.   *)
(***************************************************************************)
RECURSIVE FoldMax(_, _, _)
FoldMax(col, a, b) ==
    IF a = b THEN col[a] ELSE PyMax(FoldMax(col, a, b - 1), col[b])

RECURSIVE FoldMin(_, _, _)
FoldMin(col, a, b) ==
    IF a = b THEN col[a]
    ELSE LET r == FoldMin(col, a, b - 1)
         IN  IF FLt(col[b], r) THEN col[b] ELSE r

RECURSIVE FoldSum(_, _, _)
FoldSum(col, a, b) ==
    IF a = b THEN col[a] ELSE FAdd(FoldSum(col, a, b - 1), col[b])

WindowFull(col, w, p) ==
    p >= w /\ p <= Len(col) /\ \A q \in (p - w + 1)..p : ~IsNaN(col[q])

RollingMax(col, w, p) ==
    IF WindowFull(col, w, p) THEN FoldMax(col, p - w + 1, p) ELSE NaN

RollingMin(col, w, p) ==
    IF WindowFull(col, w, p) THEN FoldMin(col, p - w + 1, p) ELSE NaN

RollingMean(col, w, p) ==
    IF WindowFull(col, w, p)
    THEN FDiv(FoldSum(col, p - w + 1, p), FInt(w))
    ELSE NaN

Column(frame, name) == [p \in 1..Len(frame) |-> frame[p][name]]

\* The largest of three values, NaN skipped; NaN when all three are NaN.
MaxSkipNa(a, b, c) ==
    LET ab == IF IsNaN(a) THEN b ELSE IF IsNaN(b) THEN a ELSE PyMax(a, b)
    IN  IF IsNaN(ab) THEN c ELSE IF IsNaN(c) THEN ab ELSE PyMax(ab, c)

\* true_range with the row maximum taken without skipping NaN.
true_rangeNoSkip(frame) ==
    [p \in 1..Len(frame) |->
        LET h == frame[p].high
            l == frame[p].low
            prev_c == IF p = 1 THEN NaN ELSE frame[p - 1].close
            a == FSub(h, l)
            b == FAbs(FSub(h, prev_c))
            c == FAbs(FSub(l, prev_c))
        IN  IF IsNaN(a) \/ IsNaN(b) \/ IsNaN(c) THEN NaN
            ELSE PyMax(PyMax(a, b), c)]

true_range(frame) ==
    [p \in 1..Len(frame) |->
        LET h == frame[p].high
            l == frame[p].low
            prev_c == IF p = 1 THEN NaN ELSE frame[p - 1].close
        IN  MaxSkipNa(FSub(h, l), FAbs(FSub(h, prev_c)), FAbs(FSub(l, prev_c)))]

atr(frame, n, p) == RollingMean(true_range(frame), n, p)

sma(col, n, p) == RollingMean(col, n, p)

\* series.diff(): no value at the first position.
Diff(col) ==
    [p \in 1..Len(col) |-> IF p = 1 THEN NaN ELSE FSub(col[p], col[p - 1])]

\* clip(lower=0) and clip(upper=0); NaN stays NaN.
ClipLower0(x) == IF FLt(x, Zero) THEN Zero ELSE x

ClipUpper0(x) == IF FGt(x, Zero) THEN Zero ELSE x

\* rsi with the positions without a value filled with 0.
rsiFilled(col, period, p) ==
    LET delta == Diff(col)
        gains == [q \in 1..Len(col) |-> ClipLower0(delta[q])]
        losses == [q \in 1..Len(col) |-> FNeg(ClipUpper0(delta[q]))]
        gain == RollingMean(gains, period, p)
        loss == RollingMean(losses, period, p)
        rs == NpDiv(gain, loss)
        out == FSub(FInt(100), NpDiv(FInt(100), NpAdd(FInt(1), rs)))
    IN  IF IsNaN(out) THEN Zero ELSE out

\* rsi(series, period) at position p.
rsi(col, period, p) ==
    LET delta == Diff(col)
        gains == [q \in 1..Len(col) |-> ClipLower0(delta[q])]
        losses == [q \in 1..Len(col) |-> FNeg(ClipUpper0(delta[q]))]
        gain == RollingMean(gains, period, p)
        loss == RollingMean(losses, period, p)
        rs == NpDiv(gain, loss)
    IN  FSub(FInt(100), NpDiv(FInt(100), NpAdd(FInt(1), rs)))

\* series.ewm(span=span, adjust=False).mean() at position p, for a series
\* without NaN: alpha = 1 / (1 + (span - 1) / 2), the first value is the
\* first input, and a value equal to the input is kept as it is.
RECURSIVE ewm_mean(_, _, _)
ewm_mean(col, span, p) ==
    IF p = 1 THEN col[1]
    ELSE LET alpha == FDiv(FInt(1),
                           FAdd(FInt(1), FDiv(FInt(span - 1), FInt(2))))
             old_wt == FMul(FInt(1), FSub(FInt(1), alpha))
             weighted == ewm_mean(col, span, p - 1)
             cur == col[p]
         IN  IF weighted = cur THEN weighted
             ELSE FDiv(FAdd(FMul(old_wt, weighted), FMul(alpha, cur)),
                       FAdd(old_wt, alpha))

\* macd(series, fast, slow, signal): the MACD line and the signal line.
macd_line(col, fast, slow) ==
    [p \in 1..Len(col) |->
        FSub(ewm_mean(col, fast, p), ewm_mean(col, slow, p))]

signal_line(col, fast, slow, signal, p) ==
    ewm_mean(macd_line(col, fast, slow), signal, p)

\* macd_line - signal_line at position p (md_now, md_prev of MACDRSI).
macd_diff(col, fast, slow, signal, p) ==
    FSub(macd_line(col, fast, slow)[p], signal_line(col, fast, slow, signal, p))

RECURSIVE FoldSqDev(_, _, _, _)
FoldSqDev(col, mean, a, b) ==
    LET d == FSub(col[b], mean)
    IN  IF a = b THEN FMul(d, d)
        ELSE FAdd(FoldSqDev(col, mean, a, b - 1), FMul(d, d))

\* rolling(w).std(ddof=0) at position p.
RollingStd0(col, w, p) ==
    IF WindowFull(col, w, p)
    THEN FSqrt(FDiv(FoldSqDev(col, RollingMean(col, w, p), p - w + 1, p),
                    FInt(w)))
    ELSE NaN

(***************************************************************************)
(* Strategy instances.  cls "StrategyBase" stands for any subclass: its    *)
(* _decide may return any signal.  cls "DonchianBreakout" decides by the   *)
(* rule of strategies.py.                                                  *)
(***************************************************************************)
start_cash == FInt(5000)

FeeDefault == FDiv(FInt(1), FInt(1000))

NoParams == [ch |-> 0, exit_ch |-> 0, atr_n |-> 0, atr_mult |-> Zero]

\* Parameter values with windows short enough for a series of NBars bars.
DonchianFast == [ch |-> 1, exit_ch |-> 1, atr_n |-> 1, atr_mult |-> FInt(1)]

DonchianSlow == [ch |-> 2, exit_ch |-> 1, atr_n |-> 2, atr_mult |-> FInt(2)]

AnySpec(f) == [cls |-> "StrategyBase", par |-> NoParams, fee |-> f]

DonchianSpec(par, f) == [cls |-> "DonchianBreakout", par |-> par, fee |-> f]

\* The strategy_specs lists a backtest of the model is called with.
SpecLists ==
    {<<AnySpec(Zero)>>,
     <<DonchianSpec(DonchianSlow, Zero)>>,
     <<AnySpec(Zero), DonchianSpec(DonchianFast, Zero)>>,
     <<DonchianSpec(DonchianFast, FeeDefault), AnySpec(FeeDefault)>>}

\* __init__ and reset: the instance a spec constructs with strategy id sid.
NewStrategy(sid, spec) ==
    [sid |-> sid, cls |-> spec.cls, par |-> spec.par, fee |-> spec.fee,
     position |-> Zero, cash |-> start_cash,
     trades |-> <<>>, equity_series |-> <<>>, aux |-> None]

Outcome(sig, aux) == [sig |-> sig, aux |-> aux]

Signals == {"BUY", "SELL", "NONE"}

\* df_full=None: step called without the full bar history.
NoFrame == <<None>>

\* DonchianBreakout._decide with a history of max(ch, exit_ch) + 1 bars
\* taken as enough.
DonchianDecideEarly(s, price, df_full) ==
    LET n == Len(df_full)
        par == s.par
        dc_high_prev == RollingMax(Column(df_full, "high"), par.ch, n - 1)
        exit_low == RollingMin(Column(df_full, "low"), par.exit_ch, n)
        cand == FSub(price, FMul(par.atr_mult, atr(df_full, par.atr_n, n)))
        base == IF s.aux = None \/ s.aux = Zero THEN NegInf ELSE s.aux
        trailing == PyMax(base, cand)
    IN  IF df_full = NoFrame \/ n < Max2(par.ch, par.exit_ch) + 1
        THEN Outcome("NONE", s.aux)
        ELSE IF s.position = Zero
        THEN IF FGt(df_full[n].close, dc_high_prev)
             THEN Outcome("BUY", cand)
             ELSE Outcome("NONE", s.aux)
        ELSE IF FLt(df_full[n].close, exit_low) \/ FLt(price, trailing)
             THEN Outcome("SELL", None)
             ELSE Outcome("NONE", trailing)

\* DonchianBreakout._decide with the exit channel taken one bar back, as
\* the entry channel is.
DonchianDecidePriorLow(s, price, df_full) ==
    LET n == Len(df_full)
        par == s.par
        dc_high_prev == RollingMax(Column(df_full, "high"), par.ch, n - 1)
        exit_low == RollingMin(Column(df_full, "low"), par.exit_ch, n - 1)
        cand == FSub(price, FMul(par.atr_mult, atr(df_full, par.atr_n, n)))
        base == IF s.aux = None \/ s.aux = Zero THEN NegInf ELSE s.aux
        trailing == PyMax(base, cand)
    IN  IF df_full = NoFrame \/ n < Max2(par.ch, par.exit_ch) + 2
        THEN Outcome("NONE", s.aux)
        ELSE IF s.position = Zero
        THEN IF FGt(df_full[n].close, dc_high_prev)
             THEN Outcome("BUY", cand)
             ELSE Outcome("NONE", s.aux)
        ELSE IF FLt(df_full[n].close, exit_low) \/ FLt(price, trailing)
             THEN Outcome("SELL", None)
             ELSE Outcome("NONE", trailing)

\* DonchianBreakout._decide: the signal and the new trailing stop.
DonchianDecide(s, price, df_full) ==
    LET n == Len(df_full)
        par == s.par
        dc_high_prev == RollingMax(Column(df_full, "high"), par.ch, n - 1)
        exit_low == RollingMin(Column(df_full, "low"), par.exit_ch, n)
        cand == FSub(price, FMul(par.atr_mult, atr(df_full, par.atr_n, n)))
        base == IF s.aux = None \/ s.aux = Zero THEN NegInf ELSE s.aux
        trailing == PyMax(base, cand)
    IN  IF df_full = NoFrame \/ n < Max2(par.ch, par.exit_ch) + 2
        THEN Outcome("NONE", s.aux)
        ELSE IF s.position = Zero
        THEN IF FGt(df_full[n].close, dc_high_prev)
             THEN Outcome("BUY", cand)
             ELSE Outcome("NONE", s.aux)
        ELSE IF FLt(df_full[n].close, exit_low) \/ FLt(price, trailing)
             THEN Outcome("SELL", None)
             ELSE Outcome("NONE", trailing)

\* `self.high_since_entry or price`: None and 0.0 count as not set.
OrElse(x, y) == IF x = None \/ x = Zero THEN y ELSE x

\* MACDRSI._decide with line 71 keeping the mark it has.
MACDRSIDecideStaleHigh(s, price, close) ==
    LET n == Len(close.vals)
        par == s.par
        md_now == macd_diff(close.vals, par.macd_fast, par.macd_slow,
                            par.macd_signal, n)
        md_prev == macd_diff(close.vals, par.macd_fast, par.macd_slow,
                             par.macd_signal, n - 1)
        rsi_now == rsi(close.vals, par.rsi_period, n)
        high == OrElse(s.aux, price)
        trail_stop == FMul(high, FSub(FInt(1), par.trail_pct))
    IN  IF n < 3 THEN Outcome("NONE", s.aux)
        ELSE IF FGt(s.position, Zero)
        THEN IF \/ FLt(md_now, Zero) /\ FGt(md_prev, Zero)
                \/ FGe(rsi_now, par.rsi_sell)
                \/ FLe(price, trail_stop)
             THEN Outcome("SELL", None)
             ELSE Outcome("NONE", high)
        ELSE IF /\ FGt(md_now, Zero) /\ FLt(md_prev, Zero)
                /\ FGe(rsi_now, par.rsi_buy)
             THEN Outcome("BUY", price)
             ELSE Outcome("NONE", s.aux)

\* MACDRSI._decide: the signal and the new high_since_entry.
MACDRSIDecide(s, price, close) ==
    LET n == Len(close.vals)
        par == s.par
        md_now == macd_diff(close.vals, par.macd_fast, par.macd_slow,
                            par.macd_signal, n)
        md_prev == macd_diff(close.vals, par.macd_fast, par.macd_slow,
                             par.macd_signal, n - 1)
        rsi_now == rsi(close.vals, par.rsi_period, n)
        high == PyMax(OrElse(s.aux, price), price)
        trail_stop == FMul(high, FSub(FInt(1), par.trail_pct))
    IN  IF n < 3 THEN Outcome("NONE", s.aux)
        ELSE IF FGt(s.position, Zero)
        THEN IF \/ FLt(md_now, Zero) /\ FGt(md_prev, Zero)
                \/ FGe(rsi_now, par.rsi_sell)
                \/ FLe(price, trail_stop)
             THEN Outcome("SELL", None)
             ELSE Outcome("NONE", high)
        ELSE IF /\ FGt(md_now, Zero) /\ FLt(md_prev, Zero)
                /\ FGe(rsi_now, par.rsi_buy)
             THEN Outcome("BUY", price)
             ELSE Outcome("NONE", s.aux)

\* SMACross._decide: the signal and the new high_since_entry.
SMACrossDecide(s, price, close) ==
    LET n == Len(close.vals)
        par == s.par
        c_now == FSub(sma(close.vals, par.fast, n), sma(close.vals, par.slow, n))
        c_prev == FSub(sma(close.vals, par.fast, n - 1),
                       sma(close.vals, par.slow, n - 1))
        r == rsi(close.vals, par.rsi_period, n)
        high == PyMax(OrElse(s.aux, price), price)
    IN  IF n < Max2(par.fast, par.slow) + 2 THEN Outcome("NONE", s.aux)
        ELSE IF FGt(s.position, Zero)
        THEN IF \/ FLe(price, FMul(high, FSub(FInt(1), par.trail_pct)))
                \/ FLt(c_now, Zero) /\ FGt(c_prev, Zero)
                \/ FGt(r, FInt(70))
             THEN Outcome("SELL", None)
             ELSE Outcome("NONE", high)
        ELSE IF FGt(c_now, Zero) /\ FLt(c_prev, Zero) /\ FGe(r, par.rsi_filter)
             THEN Outcome("BUY", price)
             ELSE Outcome("NONE", s.aux)

\* BollingerReversion._decide with the stop recomputed on every bar of an
\* open position.
BollingerDecideMovingStop(s, price, close, df_full) ==
    LET n == Len(close.vals)
        par == s.par
        mid == RollingMean(close.vals, par.bb_period, n)
        std == RollingStd0(close.vals, par.bb_period, n)
        lower == FSub(mid, FMul(par.bb_dev, std))
        r == rsi(close.vals, par.rsi_period, n)
        _atr == atr(df_full, par.atr_n, Len(df_full))
        stop == IF ~IsNaN(_atr) THEN FSub(price, FMul(par.atr_mult, _atr))
                ELSE None
    IN  IF \/ df_full = NoFrame
           \/ n < Max2(Max2(par.bb_period, par.rsi_period), par.atr_n) + 2
        THEN Outcome("NONE", s.aux)
        ELSE IF FGt(s.position, Zero)
        THEN IF s.aux # None /\ FLe(price, s.aux) THEN Outcome("SELL", None)
             ELSE IF FGe(price, mid) \/ FGe(r, par.rsi_exit)
             THEN Outcome("SELL", None)
             ELSE Outcome("NONE", stop)
        ELSE IF FLe(price, lower) /\ FLe(r, par.rsi_buy)
             THEN Outcome("BUY", stop)
             ELSE Outcome("NONE", s.aux)

\* BollingerReversion._decide: the signal and the new stop_px.
BollingerDecide(s, price, close, df_full) ==
    LET n == Len(close.vals)
        par == s.par
        mid == RollingMean(close.vals, par.bb_period, n)
        std == RollingStd0(close.vals, par.bb_period, n)
        lower == FSub(mid, FMul(par.bb_dev, std))
        r == rsi(close.vals, par.rsi_period, n)
        _atr == atr(df_full, par.atr_n, Len(df_full))
    IN  IF \/ df_full = NoFrame
           \/ n < Max2(Max2(par.bb_period, par.rsi_period), par.atr_n) + 2
        THEN Outcome("NONE", s.aux)
        ELSE IF FGt(s.position, Zero)
        THEN IF s.aux # None /\ FLe(price, s.aux) THEN Outcome("SELL", None)
             ELSE IF FGe(price, mid) \/ FGe(r, par.rsi_exit)
             THEN Outcome("SELL", None)
             ELSE Outcome("NONE", s.aux)
        ELSE IF FLe(price, lower) /\ FLe(r, par.rsi_buy)
             THEN Outcome("BUY", IF ~IsNaN(_atr)
                                 THEN FSub(price, FMul(par.atr_mult, _atr))
                                 ELSE None)
             ELSE Outcome("NONE", s.aux)

\* _decide: the outcomes the instance's class allows on these inputs.
Decide(s, ts, price, close, df_full) ==
    IF s.cls = "DonchianBreakout" THEN {DonchianDecide(s, price, df_full)}
    ELSE IF s.cls = "MACDRSI" THEN {MACDRSIDecide(s, price, close)}
    ELSE IF s.cls = "SMACross" THEN {SMACrossDecide(s, price, close)}
    ELSE IF s.cls = "BollingerReversion"
    THEN {BollingerDecide(s, price, close, df_full)}
    ELSE {Outcome(sig, s.aux) : sig \in Signals}

Eps == FDiv(FInt(1), FInt(1000000000))

Trade(ts, side, price, qty, sid) ==
    [ts |-> ts, side |-> side, price |-> price, qty |-> qty, sid |-> sid]

OnePlusFee(s) == FAdd(FInt(1), s.fee)

OneMinusFee(s) == FSub(FInt(1), s.fee)

BuyQty(s, price) == FDiv(s.cash, FMul(price, OnePlusFee(s)))

BuyCost(s, qty, price) == FMul(FMul(qty, price), OnePlusFee(s))

\* SellProceeds with no fee taken off.
SellProceedsNoFee(s, qty, price) == FMul(qty, price)

SellProceeds(s, qty, price) == FMul(FMul(qty, price), OneMinusFee(s))

\* Execute with the SELL branch not guarded by position > 0.
ExecuteSellUnguarded(s, sig, ts, price) ==
    IF sig = "BUY" /\ s.position = Zero
    THEN LET qty == BuyQty(s, price)
         IN  IF FGt(qty, Eps)
             THEN [s EXCEPT !.cash = FSub(@, BuyCost(s, qty, price)),
                            !.position = qty,
                            !.trades = Append(@, Trade(ts, "BUY", price, qty, s.sid))]
             ELSE s
    ELSE IF sig = "SELL"
    THEN LET qty == s.position
         IN  [s EXCEPT !.cash = FAdd(@, SellProceeds(s, qty, price)),
                       !.position = Zero,
                       !.trades = Append(@, Trade(ts, "SELL", price, qty, s.sid))]
    ELSE s

\* Execute with the BUY branch not guarded by position == 0.
ExecuteBuyUnguarded(s, sig, ts, price) ==
    IF sig = "BUY"
    THEN LET qty == BuyQty(s, price)
         IN  IF FGt(qty, Eps)
             THEN [s EXCEPT !.cash = FSub(@, BuyCost(s, qty, price)),
                            !.position = qty,
                            !.trades = Append(@, Trade(ts, "BUY", price, qty, s.sid))]
             ELSE s
    ELSE IF sig = "SELL" /\ FGt(s.position, Zero)
    THEN LET qty == s.position
         IN  [s EXCEPT !.cash = FAdd(@, SellProceeds(s, qty, price)),
                       !.position = Zero,
                       !.trades = Append(@, Trade(ts, "SELL", price, qty, s.sid))]
    ELSE s

\* Execute that, having sold, buys again at the same bar.
ExecuteSellRebuy(s, sig, ts, price) ==
    IF sig = "BUY" /\ s.position = Zero
    THEN LET qty == BuyQty(s, price)
         IN  IF FGt(qty, Eps)
             THEN [s EXCEPT !.cash = FSub(@, BuyCost(s, qty, price)),
                            !.position = qty,
                            !.trades = Append(@, Trade(ts, "BUY", price, qty, s.sid))]
             ELSE s
    ELSE IF sig = "SELL" /\ FGt(s.position, Zero)
    THEN LET qty == s.position
             sold == [s EXCEPT !.cash = FAdd(@, SellProceeds(s, qty, price)),
                               !.position = Zero,
                               !.trades = Append(@, Trade(ts, "SELL", price, qty, s.sid))]
             again == BuyQty(sold, price)
         IN  [sold EXCEPT !.cash = FSub(@, BuyCost(sold, again, price)),
                          !.position = again,
                          !.trades = Append(@, Trade(ts, "BUY", price, again, s.sid))]
    ELSE s

\* Execute with line 77 left out: a BUY of any quantity is executed.
ExecuteNoEpsilon(s, sig, ts, price) ==
    IF sig = "BUY" /\ s.position = Zero
    THEN LET qty == BuyQty(s, price)
         IN  [s EXCEPT !.cash = FSub(@, BuyCost(s, qty, price)),
                       !.position = qty,
                       !.trades = Append(@, Trade(ts, "BUY", price, qty, s.sid))]
    ELSE IF sig = "SELL" /\ FGt(s.position, Zero)
    THEN LET qty == s.position
         IN  [s EXCEPT !.cash = FAdd(@, SellProceeds(s, qty, price)),
                       !.position = Zero,
                       !.trades = Append(@, Trade(ts, "SELL", price, qty, s.sid))]
    ELSE s

\* The ledger part of step: the signal applied to cash, position, trades.
Execute(s, sig, ts, price) ==
    IF sig = "BUY" /\ s.position = Zero
    THEN LET qty == BuyQty(s, price)
         IN  IF FGt(qty, Eps)
             THEN [s EXCEPT !.cash = FSub(@, BuyCost(s, qty, price)),
                            !.position = qty,
                            !.trades = Append(@, Trade(ts, "BUY", price, qty, s.sid))]
             ELSE s
    ELSE IF sig = "SELL" /\ FGt(s.position, Zero)
    THEN LET qty == s.position
         IN  [s EXCEPT !.cash = FAdd(@, SellProceeds(s, qty, price)),
                       !.position = Zero,
                       !.trades = Append(@, Trade(ts, "SELL", price, qty, s.sid))]
    ELSE s

Equity(s, price) == FAdd(s.cash, FMul(s.position, price))

\* step recording equity only on the bars where a trade was made.
StepEquityOnTrade(s, d, ts, price) ==
    LET a == Execute([s EXCEPT !.aux = d.aux], d.sig, ts, price)
    IN  IF a.trades = s.trades THEN a
        ELSE [a EXCEPT !.equity_series =
                          Append(@, [ts |-> ts, equity |-> Equity(a, price)])]

\* StrategyBase.step, given the outcome d of _decide.
Step(s, d, ts, price) ==
    LET a == Execute([s EXCEPT !.aux = d.aux], d.sig, ts, price)
    IN  [a EXCEPT !.equity_series =
                      Append(@, [ts |-> ts, equity |-> Equity(a, price)])]

(***************************************************************************)
(* StrategyBase.metrics and score_metrics.  A timestamp counts minutes.    *)
(***************************************************************************)
TickSeconds == 60

EmptyMetrics == [kind |-> "empty"]

\* The call ended by the OverflowError of the float power.
RaisedMetrics == [kind |-> "OverflowError"]

\* The call ended by the TypeError of float() on a complex cagr.
ComplexMetrics == [kind |-> "TypeError"]

\* pd.Series(vals).pct_change(fill_method=None).fillna(0.0)
Returns(vals) ==
    [n \in 1..Len(vals) |->
        IF n = 1 THEN Zero
        ELSE LET c == NpAdd(NpDiv(vals[n], vals[n - 1]), FInt(-1))
             IN  IF IsNaN(c) THEN Zero ELSE c]

Mean(col) == FDiv(FoldSum(col, 1, Len(col)), FInt(Len(col)))

\* ret.std(ddof=1) if len(ret) > 1 else 0.0
Std1(col) ==
    IF Len(col) > 1
    THEN FSqrt(FDiv(FoldSqDev(col, Mean(col), 1, Len(col)), FInt(Len(col) - 1)))
    ELSE Zero

\* The loop over vals of lines 126-131: the running peak and max_dd after
\* the first n values.
RECURSIVE DrawdownLoop(_, _)
DrawdownLoop(vals, n) ==
    IF n = 0 THEN [peak |-> vals[1], max_dd |-> Zero]
    ELSE LET b == DrawdownLoop(vals, n - 1)
             peak == PyMax(b.peak, vals[n])
         IN  [peak |-> peak,
              max_dd |-> IF FGt(peak, Zero)
                         THEN PyMax(b.max_dd, FDiv(FSub(peak, vals[n]), peak))
                         ELSE b.max_dd]

\* WinLossLoop with a break-even pair counted as a win.
RECURSIVE WinLossLoopTiesWin(_, _)
WinLossLoopTiesWin(trades, n) ==
    IF n = 0 THEN [wins |-> 0, losses |-> 0]
    ELSE LET b == WinLossLoopTiesWin(trades, n - 1)
             buy == trades[2 * n - 1]
             sell == trades[2 * n]
         IN  IF FGe(FMul(FSub(sell.price, buy.price), buy.qty), Zero)
             THEN [b EXCEPT !.wins = @ + 1]
             ELSE [b EXCEPT !.losses = @ + 1]

\* The loop over the pairs of trades of lines 138-147: wins and losses
\* among the first n pairs.
RECURSIVE WinLossLoop(_, _)
WinLossLoop(trades, n) ==
    IF n = 0 THEN [wins |-> 0, losses |-> 0]
    ELSE LET b == WinLossLoop(trades, n - 1)
             buy == trades[2 * n - 1]
             sell == trades[2 * n]
         IN  IF FGt(FMul(FSub(sell.price, buy.price), buy.qty), Zero)
             THEN [b EXCEPT !.wins = @ + 1]
             ELSE [b EXCEPT !.losses = @ + 1]

\* StrategyBase.metrics
Metrics(s) ==
    LET valid == SelectSeq(s.equity_series, LAMBDA x : ~IsNaN(x.equity))
        vals == [n \in 1..Len(valid) |-> valid[n].equity]
        t0 == valid[1].ts
        t1 == Last(s.equity_series).ts
        days == PyMax(FDiv(FInt((t1 - t0) * TickSeconds), FInt(86400)), Eps)
        ret == Returns(vals)
        mu == Mean(ret)
        sigma == Std1(ret)
        sharpe == IF FGt(sigma, Zero)
                  THEN FMul(FDiv(mu, sigma), FSqrt(FInt(1440)))
                  ELSE Zero
        max_dd == DrawdownLoop(vals, Len(vals)).max_dd
        start_eq == vals[1]
        end_eq == Last(vals)
        years == FDiv(days, FInt(365))
        power == FPow(FDiv(end_eq, start_eq), FDiv(FInt(1), PyMax(years, Eps)))
        cagr == IF FGt(start_eq, Zero) THEN FSub(power, FInt(1)) ELSE Zero
        wl == WinLossLoop(s.trades, Len(s.trades) \div 2)
    IN  IF s.equity_series = <<>> THEN EmptyMetrics
        ELSE IF Len(vals) = 0 THEN EmptyMetrics
        ELSE IF FGt(start_eq, Zero) /\ power = Overflow THEN RaisedMetrics
        ELSE IF FGt(start_eq, Zero) /\ power = Complex THEN ComplexMetrics
        ELSE [kind |-> "dict", sid |-> s.sid, name |-> <<s.sid, s.cls>>,
              final_equity |-> end_eq, pnl |-> FSub(end_eq, start_eq),
              sharpe |-> sharpe, max_dd |-> max_dd, trades |-> Len(s.trades),
              winrate |-> FDiv(FInt(wl.wins), FInt(Max2(1, wl.wins + wl.losses))),
              cagr |-> cagr, days |-> days]

Sentinel == FNeg(FInt(1000000000))

\* score_metrics with line 52 letting a cagr of 0 through.
score_metricsCagrStrict(m, min_trades, max_dd_cap) ==
    LET trades == IF m.kind = "dict" THEN m.trades ELSE 0
        cagr == IF m.kind = "dict" THEN m.cagr ELSE Zero
        max_dd == IF m.kind = "dict" THEN m.max_dd ELSE FInt(1)
        sharpe == IF m.kind = "dict" THEN m.sharpe ELSE Zero
        maxdd == IF m.kind = "dict" THEN m.max_dd ELSE Zero
    IN  IF trades < min_trades THEN Sentinel
        ELSE IF FLt(cagr, Zero) THEN Sentinel
        ELSE IF FGt(max_dd, max_dd_cap) THEN Sentinel
        ELSE FSub(FAdd(FMul(FDiv(FInt(6), FInt(10)), sharpe),
                       FMul(FDiv(FInt(4), FInt(10)), FMul(cagr, FInt(100)))),
                  FMul(FInt(2), FMul(maxdd, FInt(100))))

\* score_metrics
score_metrics(m, min_trades, max_dd_cap) ==
    LET trades == IF m.kind = "dict" THEN m.trades ELSE 0
        cagr == IF m.kind = "dict" THEN m.cagr ELSE Zero
        max_dd == IF m.kind = "dict" THEN m.max_dd ELSE FInt(1)
        sharpe == IF m.kind = "dict" THEN m.sharpe ELSE Zero
        maxdd == IF m.kind = "dict" THEN m.max_dd ELSE Zero
    IN  IF trades < min_trades THEN Sentinel
        ELSE IF FLe(cagr, Zero) THEN Sentinel
        ELSE IF FGt(max_dd, max_dd_cap) THEN Sentinel
        ELSE FSub(FAdd(FMul(FDiv(FInt(6), FInt(10)), sharpe),
                       FMul(FDiv(FInt(4), FInt(10)), FMul(cagr, FInt(100)))),
                  FMul(FInt(2), FMul(maxdd, FInt(100))))

(***************************************************************************)
(* run_backtest_multi.  runs[r] is one call of it: its arguments df and    *)
(* strategy_specs, its locals, and where it stands: at the head of the     *)
(* loop over the rows ("iter", row i is next), inside the loop over the    *)
(* instances ("steps", instance j is next), or returned ("done").          *)
(* calls lists the step calls made so far, each with its arguments and    *)
(* the signal it returned.                                                 *)
(***************************************************************************)
VARIABLES runs, search, client, ind, live, viewer

vars == <<runs, search, client, ind, live, viewer>>

\* NewRun with the specs enumerated from 0.
NewRunZeroBased(df, specs) ==
    [df |-> df, specs |-> specs,
     strats |-> [k \in 1..Len(specs) |-> NewStrategy(k - 1, specs[k])],
     closes |-> <<>>, i |-> 1, j |-> 0, pc |-> "iter",
     ts |-> 0, px |-> None, cs |-> [vals |-> <<>>, index |-> <<>>],
     calls |-> <<>>]

\* The state of a call after lines 43-47: the instances built, closes empty.
NewRun(df, specs) ==
    [df |-> df, specs |-> specs,
     strats |-> [k \in 1..Len(specs) |-> NewStrategy(k, specs[k])],
     closes |-> <<>>, i |-> 1, j |-> 0, pc |-> "iter",
     ts |-> 0, px |-> None, cs |-> [vals |-> <<>>, index |-> <<>>],
     calls |-> <<>>]

\* Lists of specs of classes whose _decide is given by the source.
DecidedSpecLists ==
    {<<DonchianSpec(DonchianFast, Zero)>>,
     <<DonchianSpec(DonchianSlow, FeeDefault), DonchianSpec(DonchianFast, FeeDefault)>>}

\* pd.Series(closes, index=df.index[: len(closes)])
CloseSeries(df, closes) ==
    [vals |-> closes, index |-> [p \in 1..Len(closes) |-> df[p].ts]]

\* The frame sliced one row further than line 55 does.
DfFullAhead(df, closes) ==
    SubSeq(df, 1, IF Len(closes) < Len(df) THEN Len(closes) + 1 ELSE Len(df))

\* df.iloc[: len(closes)]
DfFull(df, closes) == SubSeq(df, 1, Len(closes))

\* How far a call has got; the calls share nothing, so the model always
\* advances the call that is furthest behind (the first of them on a tie).
Progress(R) ==
    IF R.pc = "done" THEN (Len(R.df) + 2) * (Len(R.strats) + 2)
    ELSE R.i * (Len(R.strats) + 2) + (IF R.pc = "steps" THEN R.j ELSE 0)

Turn(r) ==
    r \in DOMAIN runs /\ \A q \in DOMAIN runs :
        \/ runs[q].pc = "done"
        \/ Progress(runs[r]) < Progress(runs[q])
        \/ Progress(runs[r]) = Progress(runs[q]) /\ r <= q

\* The check of line 50 left out.
ValidCloseAlways(px) == TRUE

\* Line 50: not np.isnan(px)
ValidClose(px) == ~IsNaN(px)

\* The loop over the instances left after its first pass.
LastInstanceFirst(R) == TRUE

\* Line 54: s is the last instance of strats.
LastInstance(R) == R.j = Len(R.strats)

\* Lines 48-51: the row's close is NaN, continue.
SkipBar(r) ==
    LET R == runs[r]
    IN  /\ Turn(r)
        /\ R.pc = "iter" /\ R.i <= Len(R.df)
        /\ ~ValidClose(R.df[R.i].close)
        /\ runs' = [runs EXCEPT ![r] =
                       [R EXCEPT !.ts = R.df[R.i].ts, !.px = R.df[R.i].close,
                                 !.i = @ + 1]]
        /\ UNCHANGED <<search, client, ind, live, viewer>>

\* Lines 48-53: a valid close is appended to closes and cs is built.
BeginBar(r) ==
    LET R == runs[r]
        px == R.df[R.i].close
        closes == Append(R.closes, px)
    IN  /\ Turn(r)
        /\ R.pc = "iter" /\ R.i <= Len(R.df)
        /\ ValidClose(px)
        /\ runs' = [runs EXCEPT ![r] =
                       [R EXCEPT !.ts = R.df[R.i].ts, !.px = px,
                                 !.closes = closes,
                                 !.cs = CloseSeries(R.df, closes),
                                 !.pc = IF R.strats = <<>> THEN "iter" ELSE "steps",
                                 !.i = IF R.strats = <<>> THEN @ + 1 ELSE @,
                                 !.j = IF R.strats = <<>> THEN 0 ELSE 1]]
        /\ UNCHANGED <<search, client, ind, live, viewer>>

\* StepStrat with the cash kept in one attribute shared by all instances.
StepStratSharedCash(r) ==
    LET R == runs[r]
        s == R.strats[R.j]
        df_full == DfFull(R.df, R.closes)
        last == LastInstance(R)
    IN  /\ Turn(r)
        /\ R.pc = "steps"
        /\ \E d \in Decide(s, R.ts, R.px, R.cs, df_full) :
              LET a == Step(s, d, R.ts, R.px)
              IN  runs' = [runs EXCEPT ![r] =
                      [R EXCEPT !.strats = [k \in DOMAIN R.strats |->
                                    IF k = R.j THEN a
                                    ELSE [R.strats[k] EXCEPT !.cash = a.cash]],
                                !.calls = Append(@, [sid |-> s.sid, ts |-> R.ts,
                                                     price |-> R.px, close |-> R.cs,
                                                     df_full |-> df_full,
                                                     sig |-> d.sig]),
                                !.j = IF last THEN 0 ELSE @ + 1,
                                !.i = IF last THEN @ + 1 ELSE @,
                                !.pc = IF last THEN "iter" ELSE "steps"]]
        /\ UNCHANGED <<search, client, ind, live, viewer>>

\* Lines 54-55: s.step(ts, px, cs, df_full=df.iloc[: len(closes)]) for the
\* next instance; after the last one the loop over the rows goes on.
StepStrat(r) ==
    LET R == runs[r]
        s == R.strats[R.j]
        df_full == DfFull(R.df, R.closes)
        last == LastInstance(R)
    IN  /\ Turn(r)
        /\ R.pc = "steps"
        /\ \E d \in Decide(s, R.ts, R.px, R.cs, df_full) :
              runs' = [runs EXCEPT ![r] =
                  [R EXCEPT !.strats[R.j] = Step(s, d, R.ts, R.px),
                            !.calls = Append(@, [sid |-> s.sid, ts |-> R.ts,
                                                 price |-> R.px, close |-> R.cs,
                                                 df_full |-> df_full,
                                                 sig |-> d.sig]),
                            !.j = IF last THEN 0 ELSE @ + 1,
                            !.i = IF last THEN @ + 1 ELSE @,
                            !.pc = IF last THEN "iter" ELSE "steps"]]
        /\ UNCHANGED <<search, client, ind, live, viewer>>

\* Line 56: the rows are exhausted, return strats.
Return(r) ==
    LET R == runs[r]
    IN  /\ Turn(r)
        /\ R.pc = "iter" /\ R.i > Len(R.df)
        /\ runs' = [runs EXCEPT ![r] = [R EXCEPT !.pc = "done"]]
        /\ UNCHANGED <<search, client, ind, live, viewer>>

\* No call of grid_search_one is under way.
NoSearch == [pc |-> "none"]

\* No caller holds an instance of its own.
NoClient == [pc |-> "none"]

\* No indicator function is being called on its own.
NoCall == [pc |-> "none"]

\* No live window is open.
NoLive == [pc |-> "none"]

\* No backtest viewer is open.
NoViewer == [pc |-> "none"]

\* One call of run_backtest_multi, on any series and any list of specs.
Init ==
    /\ \E df \in Series, specs \in SpecLists : runs = <<NewRun(df, specs)>>
    /\ search = NoSearch
    /\ client = NoClient
    /\ ind = NoCall
    /\ live = NoLive
    /\ viewer = NoViewer

\* At most two calls are compared with each other.
RunIds == {1, 2}

Next ==
    \E r \in RunIds :
        SkipBar(r) \/ BeginBar(r) \/ StepStrat(r) \/ Return(r)

Spec == Init /\ [][Next]_vars

\* Two calls with the same specs on series that differ in one bar only.
\* Any two series with a common prefix are joined by a chain of such pairs.
InitPair ==
    \E df \in Series, specs \in DecidedSpecLists, p \in 1..NBars, c \in Prices :
        /\ c # df[p].close
        /\ runs = <<NewRun(df, specs),
                    NewRun([df EXCEPT ![p] = FlatBar(p, c)], specs)>>
        /\ search = NoSearch
        /\ client = NoClient
        /\ ind = NoCall
        /\ live = NoLive
        /\ viewer = NoViewer

SpecPair == InitPair /\ [][Next]_vars

\* Lists of several specs, one of them of a class decided by the source.
IsoSpecLists ==
    {<<AnySpec(FeeDefault), DonchianSpec(DonchianFast, FeeDefault)>>}

\* The series whose bars after the first all have a valid close.
IsoSeries == {df \in Series : \A p \in 2..NBars : ~IsNaN(df[p].close)}

\* A call with several specs and a call with one of these specs alone, on
\* the same series.
InitIso ==
    \E df \in IsoSeries, specs \in IsoSpecLists, k \in 1..2 :
        /\ specs[k].cls # "StrategyBase"
        /\ runs = <<NewRun(df, specs), NewRun(df, <<specs[k]>>)>>
        /\ search = NoSearch
        /\ client = NoClient
        /\ ind = NoCall
        /\ live = NoLive
        /\ viewer = NoViewer

SpecIso == InitIso /\ [][Next]_vars

(***************************************************************************)
(* Backtests of the four strategies of strategies.py, with windows short   *)
(* enough for the bars of the model.                                       *)
(***************************************************************************)
MACDRSISpec(rsi_sell, trail_pct, f) ==
    [cls |-> "MACDRSI",
     par |-> [macd_fast |-> 1, macd_slow |-> 2, macd_signal |-> 2,
              rsi_period |-> 1, rsi_buy |-> FInt(55), rsi_sell |-> rsi_sell,
              trail_pct |-> trail_pct],
     fee |-> f]

SMACrossSpec(rsi_period, rsi_filter, trail_pct, f) ==
    [cls |-> "SMACross",
     par |-> [fast |-> 1, slow |-> 2, rsi_period |-> rsi_period,
              rsi_filter |-> rsi_filter, trail_pct |-> trail_pct],
     fee |-> f]

BollingerSpec(rsi_exit, atr_n, atr_mult, f) ==
    [cls |-> "BollingerReversion",
     par |-> [bb_period |-> 2, bb_dev |-> FInt(1), rsi_period |-> 1,
              rsi_buy |-> FInt(35), rsi_exit |-> rsi_exit,
              atr_n |-> atr_n, atr_mult |-> atr_mult],
     fee |-> f]

\* A stop four average true ranges below the price.
DonchianWide == [ch |-> 1, exit_ch |-> 1, atr_n |-> 1, atr_mult |-> FInt(4)]

\* trail_pct of 2% (the default) and of 25%.
TrailDefault == FDiv(FInt(2), FInt(100))

TrailWide == FDiv(FInt(1), FInt(4))

\* Lists with one instance of each of the four classes.
StratSpecLists ==
    {<<MACDRSISpec(FInt(70), TrailDefault, FeeDefault),
       SMACrossSpec(1, FInt(50), TrailDefault, FeeDefault),
       DonchianSpec(DonchianFast, FeeDefault),
       BollingerSpec(FInt(50), 1, FDiv(FInt(1), FInt(2)), FeeDefault)>>,
     <<MACDRSISpec(FInt(101), TrailWide, Zero),
       SMACrossSpec(3, FInt(20), TrailWide, Zero),
       DonchianSpec(DonchianWide, Zero),
       BollingerSpec(FInt(101), 2, FInt(2), Zero)>>}

\* The bars of a strategy backtest.
StratBars == NBars + 1

\* Series of StratBars flat bars, at most one of them without a close.
StratSeries ==
    {[p \in 1..StratBars |-> FlatBar(p, f[p])] :
        f \in {f \in [1..StratBars -> Prices] :
                  \A p, q \in 1..StratBars :
                     (IsNaN(f[p]) /\ IsNaN(f[q])) => p = q}}

InitStrat ==
    /\ \E df \in StratSeries, specs \in StratSpecLists :
          runs = <<NewRun(df, specs)>>
    /\ search = NoSearch
    /\ client = NoClient
    /\ ind = NoCall
    /\ live = NoLive
    /\ viewer = NoViewer

SpecStrat == InitStrat /\ [][Next]_vars

(***************************************************************************)
(* Backtests on series with a close so high that the cash buys less than   *)
(* the quantity step accepts.                                              *)
(***************************************************************************)
\* 2^43: start_cash / (Huge * (1 + fee)) is below 1e-9.
Huge == FMul(FInt(Pow2(30)), FInt(Pow2(13)))

DustSpecLists ==
    {<<MACDRSISpec(FInt(101), TrailDefault, FeeDefault),
       DonchianSpec(DonchianFast, FeeDefault),
       SMACrossSpec(1, FInt(50), TrailDefault, FeeDefault)>>}

\* Series of flat bars with closes of 9, 12 or Huge, the first bar possibly
\* without a close.
DustSeries ==
    {[p \in 1..NBars |-> FlatBar(p, f[p])] :
        f \in {f \in [1..NBars -> {FInt(9), FInt(12), Huge, NaN}] :
                  \A p \in 2..NBars : ~IsNaN(f[p])}}

InitDust ==
    /\ \E df \in DustSeries, specs \in DustSpecLists :
          runs = <<NewRun(df, specs)>>
    /\ search = NoSearch
    /\ client = NoClient
    /\ ind = NoCall
    /\ live = NoLive
    /\ viewer = NoViewer

SpecDust == InitDust /\ [][Next]_vars

(***************************************************************************)
(* Backtests in which the floats compute exactly: the prices are powers of *)
(* two and the fee is 0 or 1/4, so that with start_cash = 5^4 * 2^3 no     *)
(* product, quotient or sum of the ledger is rounded in the first four     *)
(* BUYs of an instance.                                                    *)
(***************************************************************************)
ExactFees == {Zero, FDiv(FInt(1), FInt(4))}

ExactPrices == {FInt(8), FInt(16), Huge}

ExactSeries ==
    {[p \in 1..NBars |-> FlatBar(p, f[p])] :
        f \in {f \in [1..NBars -> ExactPrices \cup {NaN}] :
                  \A p \in 2..NBars : ~IsNaN(f[p])}}

InitExact ==
    /\ \E df \in ExactSeries, f \in ExactFees :
          runs = <<NewRun(df, <<AnySpec(f)>>)>>
    /\ search = NoSearch
    /\ client = NoClient
    /\ ind = NoCall
    /\ live = NoLive
    /\ viewer = NoViewer

SpecExact == InitExact /\ [][Next]_vars

(***************************************************************************)
(* Backtests of DonchianBreakout on bars with a range: the close lies       *)
(* within low..high, at the low, at the high, or (bad data) below the low.  *)
(***************************************************************************)
\* high, low and close of the bars.
ChannelShapes ==
    {<<FInt(12), FInt(9), FInt(10)>>, <<FInt(10), FInt(10), FInt(10)>>,
     <<FInt(12), FInt(10), FInt(12)>>, <<FInt(10), FInt(8), FInt(9)>>,
     <<FInt(12), FInt(11), FInt(10)>>}

\* The first bar possibly without data.
ChannelSeries ==
    {[p \in 1..NBars |-> Bar(p, f[p][1], f[p][2], f[p][3])] :
        f \in {f \in [1..NBars -> ChannelShapes \cup {<<NaN, NaN, NaN>>}] :
                  \A p \in 2..NBars : ~IsNaN(f[p][3])}}

ChannelSpecLists ==
    {<<DonchianSpec(DonchianFast, FeeDefault)>>,
     <<DonchianSpec(DonchianWide, Zero)>>}

InitChannel ==
    /\ \E df \in ChannelSeries, specs \in ChannelSpecLists :
          runs = <<NewRun(df, specs)>>
    /\ search = NoSearch
    /\ client = NoClient
    /\ ind = NoCall
    /\ live = NoLive
    /\ viewer = NoViewer

SpecChannel == InitChannel /\ [][Next]_vars

(***************************************************************************)
(* grid_search_one.  search is one call of it: grid is the list that       *)
(* StrategyCls.grid(fee=fee) returned, g the number of combinations the    *)
(* loop of line 97 has finished, strat the instance of the combination at  *)
(* hand, evals the evaluations made so far.                                *)
(***************************************************************************)
\* The comprehension of a grid method over the values of four parameters,
\* the first varying slowest.
GridOf(chs, exs, ans, ams, fee) ==
    [n \in 1..(Len(chs) * Len(exs) * Len(ans) * Len(ams)) |->
        LET k == n - 1
        IN  [ch |-> chs[(k \div (Len(ams) * Len(ans) * Len(exs))) + 1],
             exit_ch |-> exs[((k \div (Len(ams) * Len(ans))) % Len(exs)) + 1],
             atr_n |-> ans[((k \div Len(ams)) % Len(ans)) + 1],
             atr_mult |-> ams[(k % Len(ams)) + 1],
             fee |-> fee]]

\* DonchianBreakout.grid
DonchianGrid(fee) ==
    GridOf(<<20, 30>>, <<10, 15>>, <<14>>, <<FInt(2), FDiv(FInt(5), FInt(2))>>, fee)

\* The grid of a subclass of DonchianBreakout whose windows fit a series of
\* NBars bars.
DonchianShortGrid(fee) ==
    GridOf(<<2, 1>>, <<1>>, <<1>>, <<FInt(1), FInt(2)>>, fee)

\* StrategyCls(sid=1, **params)
Construct(cls, params) ==
    NewStrategy(1, [cls |-> cls,
                    par |-> [ch |-> params.ch, exit_ch |-> params.exit_ch,
                             atr_n |-> params.atr_n, atr_mult |-> params.atr_mult],
                    fee |-> params.fee])

\* Lines 102-107: one pass of the loop over the rows, on the instance and
\* the closes of the passes before.
ReplayRow(at, df, i) ==
    LET px == df[i].close
        appended == Append(at.closes, px)
    IN  IF IsNaN(px) THEN at
        ELSE [strat |-> Step(at.strat,
                             CHOOSE d \in Decide(at.strat, df[i].ts, px,
                                                 CloseSeries(df, appended),
                                                 DfFull(df, appended)) : TRUE,
                             df[i].ts, px),
              closes |-> appended]

\* Lines 99-107: the instance and the closes after the first n rows.
RECURSIVE InlineReplay(_, _, _)
InlineReplay(strat, df, n) ==
    IF n = 0 THEN [strat |-> strat, closes |-> <<>>]
    ELSE ReplayRow(InlineReplay(strat, df, n - 1), df, n)

\* The state of a call after lines 94-96 and the call of grid.
NewSearch(df, cls, grid, min_trades, max_dd_cap) ==
    [df |-> df, cls |-> cls, grid |-> grid,
     min_trades |-> min_trades, max_dd_cap |-> max_dd_cap,
     best_params |-> None, best_metrics |-> None, best_score |-> Sentinel,
     g |-> 0, strat |-> None, pc |-> "next", evals |-> <<>>]

\* Line 110: sc > best_score
Better(sc, best_score) == FGt(sc, best_score)

\* ConstructNext with one instance, built for the first combination, given
\* the parameters of each later one.
ConstructNextReusing ==
    /\ search.pc = "next" /\ search.g < Len(search.grid)
    /\ search' = [search EXCEPT
           !.strat = IF search.g = 0
                     THEN Construct(search.cls, search.grid[search.g + 1])
                     ELSE [search.strat EXCEPT
                              !.par = Construct(search.cls,
                                                search.grid[search.g + 1]).par],
           !.pc = "replay"]
    /\ UNCHANGED <<runs, client, ind, live, viewer>>

\* Lines 97-99: the next combination of the grid, a new instance of the
\* class built from it.
ConstructNext ==
    /\ search.pc = "next" /\ search.g < Len(search.grid)
    /\ search' = [search EXCEPT
           !.strat = Construct(search.cls, search.grid[search.g + 1]),
           !.pc = "replay"]
    /\ UNCHANGED <<runs, client, ind, live, viewer>>

\* Lines 110-111: the comparison with the best score so far.
Compared(S, params, strat, m, sc) ==
    [S EXCEPT !.strat = strat, !.pc = "next", !.g = @ + 1,
              !.evals = Append(@, [params |-> params, strat |-> strat,
                                   m |-> m, sc |-> sc]),
              !.best_params = IF Better(sc, S.best_score) THEN params ELSE @,
              !.best_metrics = IF Better(sc, S.best_score) THEN m ELSE @,
              !.best_score = IF Better(sc, S.best_score) THEN sc ELSE @]

\* Lines 108-109: the score of the metrics; an exception of metrics ends
\* the call.
Scored(S, params, strat, m) ==
    IF m \in {RaisedMetrics, ComplexMetrics}
    THEN [S EXCEPT !.strat = strat, !.pc = "raised",
                   !.evals = Append(@, [params |-> params, strat |-> strat,
                                        m |-> m, sc |-> None])]
    ELSE Compared(S, params, strat, m,
                  score_metrics(m, S.min_trades, S.max_dd_cap))

\* Lines 108-111 on the instance the replay has left.
Replayed(S, params, strat) == Scored(S, params, strat, Metrics(strat))

\* Lines 100-111: the replay of the bars on the instance, its metrics, the
\* score, and the comparison with the best score so far.
Evaluate ==
    /\ search.pc = "replay"
    /\ search' = Replayed(search, search.grid[search.g + 1],
                          InlineReplay(search.strat, search.df,
                                       Len(search.df)).strat)
    /\ UNCHANGED <<runs, client, ind, live, viewer>>

\* Line 112: the assert fails, no combination has replaced None.
AssertFails ==
    /\ search.pc = "next" /\ search.g = Len(search.grid)
    /\ ~(search.best_params # None /\ search.best_metrics # None)
    /\ search' = [search EXCEPT !.pc = "AssertionError"]
    /\ UNCHANGED <<runs, client, ind, live, viewer>>

\* Lines 112-113: return best_params, best_metrics.
ReturnBest ==
    /\ search.pc = "next" /\ search.g = Len(search.grid)
    /\ search.best_params # None /\ search.best_metrics # None
    /\ search' = [search EXCEPT !.pc = "returned"]
    /\ UNCHANGED <<runs, client, ind, live, viewer>>

\* Series of bars every step minutes; a bar without a close is the first
\* one, or every bar is.
SeriesEvery(step) ==
    {[p \in 1..NBars |-> FlatBar(p * step, f[p])] :
        f \in {f \in [1..NBars -> Prices] :
                  \/ \A p \in 2..NBars : ~IsNaN(f[p])
                  \/ \A p \in 1..NBars : IsNaN(f[p])}}

MinTradesDefault == 6

MaxDdCapDefault == FDiv(FInt(1), FInt(4))

\* A cap so tight that the fee of one BUY exceeds it.
MaxDdCapTight == FDiv(FInt(1), FInt(2048))

\* The arguments a search of the model is called with: DonchianBreakout
\* with the defaults on 1m bars, its subclass with small thresholds.
SearchArgs ==
    {[grid |-> DonchianGrid(FeeDefault), min_trades |-> MinTradesDefault,
      max_dd_cap |-> MaxDdCapDefault, step |-> 1],
     [grid |-> DonchianShortGrid(FeeDefault), min_trades |-> 0,
      max_dd_cap |-> MaxDdCapDefault, step |-> 1],
     [grid |-> DonchianShortGrid(FeeDefault), min_trades |-> 0,
      max_dd_cap |-> MaxDdCapDefault, step |-> 1440],
     [grid |-> DonchianShortGrid(FeeDefault), min_trades |-> 0,
      max_dd_cap |-> MaxDdCapTight, step |-> 1440],
     [grid |-> DonchianShortGrid(FeeDefault), min_trades |-> 2,
      max_dd_cap |-> MaxDdCapDefault, step |-> 1440]}

\* One call of grid_search_one.
InitGrid ==
    /\ runs = <<>>
    /\ client = NoClient
    /\ ind = NoCall
    /\ live = NoLive
    /\ viewer = NoViewer
    /\ \E a \in SearchArgs :
          \E df \in SeriesEvery(a.step) :
             search = NewSearch(df, "DonchianBreakout", a.grid,
                                a.min_trades, a.max_dd_cap)

NextGrid == ConstructNext \/ Evaluate \/ AssertFails \/ ReturnBest

SpecGrid == InitGrid /\ [][NextGrid]_vars

(***************************************************************************)
(* grid_search_one on the series and the grids that the runner is compared *)
(* with: run_backtest_multi(df, [(StrategyCls, params)]) of each           *)
(* combination.                                                            *)
(***************************************************************************)
\* The tuple (StrategyCls, params) of a combination of the grid.
ParamsSpec(cls, params) ==
    [cls |-> cls,
     par |-> [ch |-> params.ch, exit_ch |-> params.exit_ch,
              atr_n |-> params.atr_n, atr_mult |-> params.atr_mult],
     fee |-> params.fee]

\* Grids of two combinations with windows that fit the series.
PairGrids ==
    {GridOf(<<2, 1>>, <<1>>, <<1>>, <<FInt(1)>>, FeeDefault),
     GridOf(<<1>>, <<1>>, <<1>>, <<FInt(1), FInt(4)>>, Zero)}

\* Series of bars every minute or every day, any of them without a close.
ReplaySeries ==
    {[p \in 1..NBars |-> FlatBar(p * step, f[p])] :
        f \in [1..NBars -> Prices], step \in {1, 1440}}

InitReplay ==
    /\ runs = <<>>
    /\ client = NoClient
    /\ ind = NoCall
    /\ live = NoLive
    /\ viewer = NoViewer
    /\ \E df \in ReplaySeries, grid \in PairGrids :
          search = NewSearch(df, "DonchianBreakout", grid, 0, MaxDdCapDefault)

SpecReplay == InitReplay /\ [][NextGrid]_vars

(***************************************************************************)
(* A caller that holds one instance and calls its public methods in any    *)
(* order: step on each new bar with the bars received so far (as the loop  *)
(* of live.py does), metrics (as cli.py and plotting.py do) and reset.     *)
(* client.df is the frame of the bars so far, client.ret what the last     *)
(* call returned, client.last the method called last and client.rep how    *)
(* many times in a row metrics or reset has been called; client.held says *)
(* what the instance held when reset was last called on it after a step,  *)
(* until the next                                                          *)
(* step.  The bars are daily.                                              *)
(***************************************************************************)
\* reset without the _after_reset of the instance's class.
ResetBaseOnly(s) ==
    [s EXCEPT !.position = Zero, !.cash = start_cash, !.trades = <<>>,
              !.equity_series = <<>>]

\* StrategyBase.reset with the _after_reset of the instance's class.
Reset(s) ==
    [s EXCEPT !.position = Zero, !.cash = start_cash, !.trades = <<>>,
              !.equity_series = <<>>, !.aux = None]

\* The timestamp of the n-th daily bar, in minutes.
DayTs(n) == n * 1440

\* The closes of the caller's bars: two ordinary prices and a collapse.
ClientPrices == {FInt(9), FInt(12), FDiv(FInt(1), FInt(1024))}

ClientSpecs ==
    {AnySpec(Zero), DonchianSpec(DonchianFast, FeeDefault),
     MACDRSISpec(FInt(70), TrailDefault, FeeDefault)}

\* What a call returns: None, or the signal step returns.
Returned(sig) == [kind |-> "signal", sig |-> sig]

NoReturn == [kind |-> "None"]

\* What an instance held when reset was called on it.
Held(s) ==
    [open |-> FGt(s.position, Zero), aux |-> s.aux # None,
     trades |-> Len(s.trades), samples |-> Len(s.equity_series)]

NewClient(spec) ==
    [pc |-> "idle", strat |-> NewStrategy(1, spec), df |-> <<>>,
     ret |-> NoReturn, last |-> "__init__", rep |-> 1,
     held |-> Held(NewStrategy(1, spec))]

Called(c, method) ==
    [c EXCEPT !.last = method, !.rep = IF c.last = method THEN @ + 1 ELSE 1]

\* s.step(ts, float(row["close"]), cs, df_full=df) on a new bar.
CallStep ==
    /\ client.pc = "idle" /\ Len(client.df) < NBars
    /\ \E px \in ClientPrices :
          LET ts == DayTs(Len(client.df) + 1)
              df == Append(client.df, FlatBar(ts, px))
              cs == CloseSeries(df, Column(df, "close"))
          IN  \E d \in Decide(client.strat, ts, px, cs, df) :
                 client' = [client EXCEPT
                               !.strat = Step(client.strat, d, ts, px),
                               !.df = df, !.ret = Returned(d.sig),
                               !.last = "step", !.rep = 1,
                               !.held = Held(NewStrategy(1, AnySpec(Zero)))]
    /\ UNCHANGED <<runs, search, ind, live, viewer>>

\* metrics that empties the equity series it has reported on.
CallMetricsClearing ==
    /\ client.pc = "idle" /\ (client.last = "metrics" => client.rep < 2)
    /\ client' = [Called(client, "metrics") EXCEPT
                     !.ret = Metrics(client.strat),
                     !.strat.equity_series = <<>>]
    /\ UNCHANGED <<runs, search, ind, live, viewer>>

\* s.metrics(): nothing of the instance is assigned.
CallMetrics ==
    /\ client.pc = "idle" /\ (client.last = "metrics" => client.rep < 2)
    /\ client' = [Called(client, "metrics") EXCEPT
                     !.ret = Metrics(client.strat)]
    /\ UNCHANGED <<runs, search, ind, live, viewer>>

\* s.reset(), by a caller that goes on to use the instance on a new frame.
CallReset ==
    /\ client.pc = "idle" /\ (client.last = "reset" => client.rep < 2)
    /\ client' = [Called(client, "reset") EXCEPT
                     !.strat = Reset(client.strat), !.ret = NoReturn,
                     !.df = <<>>,
                     !.held = IF client.last = "reset" THEN @
                              ELSE Held(client.strat)]
    /\ UNCHANGED <<runs, search, ind, live, viewer>>

InitClient ==
    /\ runs = <<>>
    /\ search = NoSearch
    /\ ind = NoCall
    /\ live = NoLive
    /\ viewer = NoViewer
    /\ \E spec \in ClientSpecs : client = NewClient(spec)

NextClient == CallStep \/ CallMetrics \/ CallReset

SpecClient == InitClient /\ [][NextClient]_vars

(***************************************************************************)
(* A call of an indicator function on a frame of bars with a range: ind   *)
(* holds the function, its arguments and, once it has returned, the        *)
(* series it returned.                                                     *)
(***************************************************************************)
\* high, low and close of the bars of the frames: l <= c <= h, or no data.
BarShapes ==
    {<<FInt(12), FInt(9), FInt(10)>>, <<FInt(10), FInt(10), FInt(10)>>,
     <<FInt(12), FInt(10), FInt(12)>>, <<FInt(9), FInt(9), FInt(9)>>,
     <<NaN, NaN, NaN>>}

Frames ==
    {[p \in 1..NBars |-> Bar(p, f[p][1], f[p][2], f[p][3])] :
        f \in [1..NBars -> BarShapes]}

\* The lookback periods of the calls.
Periods == 1..(NBars - 1)

\* atr(df, n)
CallAtr ==
    /\ ind.pc = "called" /\ ind.fn = "atr"
    /\ ind' = [ind EXCEPT !.pc = "returned",
                          !.out = [p \in 1..Len(ind.df) |-> atr(ind.df, ind.n, p)]]
    /\ UNCHANGED <<runs, search, client, live, viewer>>

InitAtr ==
    /\ runs = <<>>
    /\ search = NoSearch
    /\ client = NoClient
    /\ live = NoLive
    /\ viewer = NoViewer
    /\ \E df \in Frames, n \in Periods :
          ind = [pc |-> "called", fn |-> "atr", df |-> df, n |-> n, out |-> <<>>]

NextAtr == CallAtr

SpecAtr == InitAtr /\ [][NextAtr]_vars

(***************************************************************************)
(* interactive_backtest_viewer.  viewer holds the locals of the call that  *)
(* its callbacks share (data, results, current_sym, current_key,           *)
(* current_fee), the strategy selector (its labels and the active one) and *)
(* what refresh has put on the figure: the instance plotted and the symbol *)
(* and fee of the title.  The drawing itself is not part of the state.     *)
(***************************************************************************)
\* Lines 48-55: one pass of the loop over the rows, on the instances and
\* the closes of the passes before.
BacktestRow(at, df, i) ==
    LET px == df[i].close
        appended == Append(at.closes, px)
    IN  IF ~ValidClose(px) THEN at
        ELSE [strats |->
                 [k \in DOMAIN at.strats |->
                     Step(at.strats[k],
                          CHOOSE d \in Decide(at.strats[k], df[i].ts, px,
                                              CloseSeries(df, appended),
                                              DfFull(df, appended)) : TRUE,
                          df[i].ts, px)],
              closes |-> appended]

\* Lines 47-55: the instances and the closes after the first n rows.
RECURSIVE BacktestRows(_, _, _)
BacktestRows(df, strats, n) ==
    IF n = 0 THEN [strats |-> strats, closes |-> <<>>]
    ELSE BacktestRow(BacktestRows(df, strats, n - 1), df, n)

\* run_backtest_multi as a function of its arguments, for specs of classes
\* whose _decide is given by the source.
run_backtest_multi(df, strategy_specs) ==
    BacktestRows(df, NewRun(df, strategy_specs).strats, Len(df)).strats

\* with_fee: every params dict with its fee replaced.
with_fee(specs, fee) == [k \in DOMAIN specs |-> [specs[k] EXCEPT !.fee = fee]]

\* What is typed into the fee box: a decimal number num/den (written with
\* a point or a comma, possibly followed by %), or no number at all.
FeeText(num, den, percent, number) ==
    [num |-> num, den |-> den, percent |-> percent, number |-> number]

\* "0", "0.001", "0,01", "1%", "0.5", "-1" and "abc".
FeeTexts ==
    {FeeText(0, 1, FALSE, TRUE), FeeText(1, 1000, FALSE, TRUE),
     FeeText(1, 100, FALSE, TRUE), FeeText(1, 1, TRUE, TRUE),
     FeeText(1, 2, FALSE, TRUE), FeeText(-1, 1, FALSE, TRUE),
     FeeText(0, 1, FALSE, FALSE)}

\* The largest fee parse_fee lets through.
FeeCap == FDiv(FInt(5), FInt(100))

\* parse_fee on a text that float() accepts.
parse_fee(text) ==
    LET t == FDiv(FInt(text.num), FInt(text.den))
        v == IF text.percent THEN FDiv(t, FInt(100)) ELSE t
    IN  PyMax(Zero, IF FLt(FeeCap, v) THEN FeeCap ELSE v)

\* The symbols and the specs the viewer is opened with.
ViewerSymbols == <<"BTCUSDT", "ETHUSDT">>

chosen_specs ==
    <<DonchianSpec(DonchianFast, FeeDefault),
      SMACrossSpec(1, FInt(50), TrailWide, FeeDefault)>>

\* What fetch_klines returns for a symbol: bars with a close, here bars
\* that close at 10 and 9 in turn before the last one.
ViewerSeries ==
    {df \in Series :
        /\ ~IsNaN(df[NBars].close)
        /\ \A p \in 1..(NBars - 1) :
               df[p].close = (IF p % 2 = 1 THEN FInt(10) ELSE FInt(9))}

strategy_keys == [k \in DOMAIN chosen_specs |-> chosen_specs[k].cls]

\* current_index: the first position of current_key in strategy_keys.
current_index(V) ==
    IF \E k \in DOMAIN strategy_keys : strategy_keys[k] = V.current_key
    THEN (CHOOSE k \in DOMAIN strategy_keys :
             /\ strategy_keys[k] = V.current_key
             /\ \A j \in 1..(k - 1) : strategy_keys[j] # V.current_key) - 1
    ELSE 0

\* max(0, min(idx, n - 1))
Clamp(idx, n) == IF idx > n - 1 THEN Max2(0, n - 1) ELSE Max2(0, idx)

\* labels_for: "<sid>: <name>" of the results of a symbol.
labels_for(V, sym) ==
    [k \in DOMAIN V.results[sym] |->
        [sid |-> V.results[sym][k].sid, name |-> V.results[sym][k].cls]]

\* set_strategy_selector(current_index()): the labels of the current
\* symbol's results, the current strategy active.
set_strategy_selector(V) ==
    [V EXCEPT !.labels = labels_for(V, V.current_sym),
              !.active = Clamp(current_index(V), Len(V.results[V.current_sym]))]

\* refresh: the current strategy of the current symbol plotted under a
\* title with the current symbol and the current fee.
refresh(V) ==
    [V EXCEPT !.plotted =
                  V.results[V.current_sym]
                           [Clamp(current_index(V),
                                  Len(V.results[V.current_sym])) + 1],
              !.title = [sym |-> V.current_sym, fee |-> V.current_fee]]

\* on_change_sym(val)
on_change_sym ==
    /\ viewer.pc = "shown"
    /\ \E val \in {ViewerSymbols[k] : k \in DOMAIN ViewerSymbols} :
          viewer' = refresh(set_strategy_selector(
                                [viewer EXCEPT !.current_sym = val]))
    /\ UNCHANGED <<runs, search, client, ind, live>>

\* on_change_str(val), val the n-th label of the selector.
on_change_str ==
    /\ viewer.pc = "shown"
    /\ \E n \in DOMAIN viewer.labels :
          viewer' = refresh(
              [viewer EXCEPT
                  !.current_key =
                      strategy_keys[Clamp(viewer.labels[n].sid - 1,
                                          Len(strategy_keys)) + 1],
                  !.active = n - 1])
    /\ UNCHANGED <<runs, search, client, ind, live>>

\* on_fee_submit(text), lines 155-165: up to the call of the runner for
\* the current symbol.
on_fee_submit ==
    /\ viewer.pc = "shown"
    /\ \E text \in FeeTexts :
          IF ~text.number
          THEN viewer' = [viewer EXCEPT !.box = viewer.current_fee]
          ELSE IF FLt(FAbs(FSub(parse_fee(text), viewer.current_fee)), Eps)
          THEN viewer' = [viewer EXCEPT !.box = parse_fee(text)]
          ELSE viewer' = [viewer EXCEPT !.box = parse_fee(text),
                                        !.current_fee = parse_fee(text),
                                        !.todo = <<viewer.current_sym>>,
                                        !.pc = "backtest"]
    /\ UNCHANGED <<runs, search, client, ind, live>>

\* The call of run_backtest_multi for the next symbol to compute, in the
\* comprehension of lines 57-59 or at line 166; after the last one the
\* selector is set and the figure refreshed (lines 182-183, 169-170).
Recompute ==
    /\ viewer.pc = "backtest"
    /\ \E strats \in {run_backtest_multi(viewer.data[Head(viewer.todo)],
                                          with_fee(chosen_specs,
                                                   viewer.current_fee))} :
          viewer' =
              IF Len(viewer.todo) = 1
              THEN refresh(set_strategy_selector(
                       [viewer EXCEPT !.results[Head(viewer.todo)] = strats,
                                      !.todo = <<>>, !.pc = "shown"]))
              ELSE [viewer EXCEPT !.results[Head(viewer.todo)] = strats,
                                  !.todo = Tail(@)]
    /\ UNCHANGED <<runs, search, client, ind, live>>

\* Lines 51-56: the data of every symbol fetched, the fee 0, the first
\* symbol and the first strategy current, no symbol backtested yet.
InitViewer ==
    /\ runs = <<>>
    /\ search = NoSearch
    /\ client = NoClient
    /\ ind = NoCall
    /\ live = NoLive
    /\ \E data \in [{ViewerSymbols[k] : k \in DOMAIN ViewerSymbols} -> ViewerSeries] :
          viewer = [pc |-> "backtest", data |-> data, todo |-> ViewerSymbols,
                    results |-> [sym \in DOMAIN data |-> <<>>],
                    current_sym |-> ViewerSymbols[1],
                    current_key |-> strategy_keys[1],
                    current_fee |-> Zero, box |-> Zero,
                    labels |-> <<>>, active |-> 0,
                    plotted |-> None, title |-> None]

NextViewer == Recompute \/ on_change_sym \/ on_change_str \/ on_fee_submit

SpecViewer == InitViewer /\ [][NextViewer]_vars

(***************************************************************************)
(* Properties.                                                             *)
(***************************************************************************)
\* The instances of all calls, as pairs <<call, index in strats>>.
Insts == UNION {{<<r, k>> : k \in DOMAIN runs[r].strats} : r \in DOMAIN runs}

Inst(p) == runs[p[1]].strats[p[2]]

\* This transition is a step call in call r.
Stepped(r) == Len(runs'[r].calls) = Len(runs[r].calls) + 1

\* The call record, the instance before and the instance after that step.
StepCall(r) == Last(runs'[r].calls)

Before(r) == runs[r].strats[StepCall(r).sid]

After(r) == runs'[r].strats[StepCall(r).sid]

BarAt(df, ts) == CHOOSE b \in {df[p] : p \in DOMAIN df} : b.ts = ts

\* The timestamps of the bars of df with a valid close, in order.
ValidTs(df) ==
    LET v == SelectSeq(df, LAMBDA b : ~IsNaN(b.close))
    IN  [n \in 1..Len(v) |-> v[n].ts]

SampleTs(s) == [n \in 1..Len(s.equity_series) |-> s.equity_series[n].ts]

\* A step that appends a BUY starts flat, one that appends a SELL starts long.
C1_Step ==
    \A r \in DOMAIN runs :
        (Stepped(r) /\ Len(After(r).trades) > Len(Before(r).trades)) =>
            /\ Last(After(r).trades).side = "BUY" => Before(r).position = Zero
            /\ Last(After(r).trades).side = "SELL" => FGt(Before(r).position, Zero)

\* C1: position >= 0 in every reachable state; a step executes a BUY only
\* from position == 0 and a SELL only from position > 0.
C1_LongOnlyOnePosition ==
    /\ [](\A p \in Insts : FGe(Inst(p).position, Zero))
    /\ [][C1_Step]_vars

C1_Witness ==
    \E p \in Insts :
        /\ Len(Inst(p).trades) = 2 /\ Inst(p).position = Zero
        /\ \E n \in DOMAIN runs[p[1]].calls :
              LET c == runs[p[1]].calls[n]
              IN  c.sid = p[2] /\ c.sig = "SELL" /\ c.ts < Inst(p).trades[1].ts

\* The sides of the log by index, and position against the log's length.
C2_Alternates ==
    \A p \in Insts :
        /\ \A n \in DOMAIN Inst(p).trades :
              Inst(p).trades[n].side = (IF n % 2 = 1 THEN "BUY" ELSE "SELL")
        /\ FGt(Inst(p).position, Zero) <=> (Len(Inst(p).trades) % 2 = 1)

\* The log before a transition is a prefix of the log after it.
C2_AppendOnly ==
    \A p \in Insts :
        LET old == Inst(p).trades
            new == runs'[p[1]].strats[p[2]].trades
        IN  Len(new) >= Len(old) /\ SubSeq(new, 1, Len(old)) = old

\* C2: the trade log alternates BUY, SELL, ... from BUY, position > 0
\* exactly when its length is odd, and step only ever appends to it.
C2_TradeLogAlternates == []C2_Alternates /\ [][C2_AppendOnly]_vars

C2_Witness ==
    \E p \in Insts :
        /\ Len(Inst(p).trades) = 3
        /\ Len(Inst(p).equity_series) > 3

\* C3: after a step that executes a BUY, and until the next trade, cash >= 0.
C3_CashNonNegativeAfterBuy ==
    \A p \in Insts :
        (Len(Inst(p).trades) % 2 = 1) => FGe(Inst(p).cash, Zero)

\* The stepped instance gains one sample, every other instance none.
C4_Step ==
    \A p \in Insts :
        LET r == p[1]
            old == Inst(p)
            new == runs'[r].strats[p[2]]
        IN  IF Stepped(r) /\ StepCall(r).sid = p[2]
            THEN new.equity_series =
                     Append(old.equity_series,
                            [ts |-> StepCall(r).ts,
                             equity |-> FAdd(new.cash,
                                             FMul(new.position, StepCall(r).price))])
            ELSE new.equity_series = old.equity_series

\* Between bars: one sample per valid bar processed, in order.
C4_Samples ==
    \A p \in Insts :
        LET R == runs[p[1]]
        IN  R.pc # "steps" => SampleTs(Inst(p)) = ValidTs(SubSeq(R.df, 1, R.i - 1))

\* C4: every step appends exactly one equity sample (ts, cash + position *
\* price, after the signal is applied); between bars the samples of an
\* instance are the bars with a valid close processed so far, in order.
C4_OneSamplePerValidBar == []C4_Samples /\ [][C4_Step]_vars

C4_Witness ==
    \E p \in Insts :
        LET R == runs[p[1]]
        IN  /\ R.pc = "done"
            /\ Len(Inst(p).equity_series) = 2
            /\ Len(Inst(p).trades) = 1
            /\ Inst(p).equity_series[1].ts < Inst(p).trades[1].ts

\* The effect of a step whose signal the ledger does not accept.
C5_Step ==
    \A r \in DOMAIN runs :
        (/\ Stepped(r)
         /\ \/ StepCall(r).sig = "NONE"
            \/ StepCall(r).sig = "BUY" /\ FGt(Before(r).position, Zero)
            \/ StepCall(r).sig = "SELL" /\ Before(r).position = Zero) =>
            /\ After(r).cash = Before(r).cash
            /\ After(r).position = Before(r).position
            /\ After(r).trades = Before(r).trades
            /\ Len(After(r).equity_series) = Len(Before(r).equity_series) + 1

\* C5: a step whose signal is NONE, BUY while position > 0 or SELL while
\* position == 0 leaves cash, position and trades as they were and appends
\* one equity sample.
C5_RejectedSignalIgnored == [][C5_Step]_vars

C5_Witness ==
    \E p \in Insts :
        LET calls == runs[p[1]].calls
            mine == SelectSeq(calls, LAMBDA c : c.sid = p[2])
        IN  /\ Len(mine) = 3
            /\ mine[1].sig = "SELL" /\ mine[2].sig = "BUY" /\ mine[3].sig = "BUY"
            /\ Len(Inst(p).trades) = 1
            /\ Inst(p).trades[1].ts = mine[2].ts

\* The transition taken on a row whose close is NaN.
C6_Skip ==
    \A r \in DOMAIN runs :
        LET R == runs[r]
        IN  (/\ R.pc = "iter" /\ R.i <= Len(R.df)
             /\ IsNaN(R.df[R.i].close)
             /\ runs'[r] # R) =>
                /\ runs'[r].strats = R.strats
                /\ runs'[r].calls = R.calls
                /\ runs'[r].closes = R.closes
                /\ runs'[r].i = R.i + 1 /\ runs'[r].pc = "iter"

\* Every equity sample belongs to a bar with a valid close.
C6_NoSample ==
    \A p \in Insts :
        \A n \in DOMAIN Inst(p).equity_series :
            ~IsNaN(BarAt(runs[p[1]].df, Inst(p).equity_series[n].ts).close)

\* C6: a bar whose close is NaN is skipped: no instance changes, no step
\* is called, closes is left alone, and no equity sample bears its timestamp.
C6_InvalidCloseSkipped == []C6_NoSample /\ [][C6_Skip]_vars

C6_Witness ==
    \E r \in DOMAIN runs :
        LET R == runs[r]
        IN  /\ R.pc = "done"
            /\ IsNaN(R.df[1].close) /\ IsNaN(R.df[3].close)
            /\ Len(R.calls) = (Len(R.df) - 2) * Len(R.strats)
            /\ \E k \in DOMAIN R.strats : Len(R.strats[k].trades) = 2

\* C7: every step call gets histories that end with the current bar: the
\* last close is the current close at the current timestamp and the last
\* row of the full bar history is the current bar.
C7_HistoriesEndAtCurrentBar ==
    \A r \in DOMAIN runs :
        \A n \in DOMAIN runs[r].calls :
            LET c == runs[r].calls[n]
            IN  /\ Last(c.close.vals) = c.price
                /\ Last(c.close.index) = c.ts
                /\ Last(c.df_full) = BarAt(runs[r].df, c.ts)

\* The closes of the bars of df with a valid close, in order.
ValidCloses(df) ==
    LET v == SelectSeq(df, LAMBDA b : ~IsNaN(b.close))
    IN  [n \in 1..Len(v) |-> v[n].close]

RowOf(df, ts) == CHOOSE p \in DOMAIN df : df[p].ts = ts

\* The histories of a step call on row k hold rows 1..k at most.
C8_Inputs ==
    \A r \in DOMAIN runs :
        \A n \in DOMAIN runs[r].calls :
            LET c == runs[r].calls[n]
                k == RowOf(runs[r].df, c.ts)
            IN  /\ c.df_full = SubSeq(runs[r].df, 1, Len(c.df_full))
                /\ Len(c.df_full) <= k
                /\ c.close.vals = ValidCloses(SubSeq(runs[r].df, 1, k))
                /\ \A q \in DOMAIN c.close.index : c.close.index[q] <= c.ts

\* Calls standing after the same bar, on series equal up to it, agree.
C8_Agree ==
    \A r1, r2 \in DOMAIN runs :
        LET A == runs[r1]
            B == runs[r2]
        IN  (/\ A.pc # "steps" /\ B.pc # "steps" /\ A.i = B.i
             /\ A.specs = B.specs
             /\ SubSeq(A.df, 1, A.i - 1) = SubSeq(B.df, 1, B.i - 1)) =>
                A.strats = B.strats

\* C8: a step call on bar k gets no data of a later bar, and two calls on
\* series that agree on their first k bars have identical instances (trades,
\* equity series, auxiliary state) after bar k.
C8_NoLookAhead == C8_Inputs /\ C8_Agree

C8_Witness ==
    /\ DOMAIN runs = {1, 2}
    /\ runs[1].pc = "iter" /\ runs[2].pc = "iter"
    /\ runs[1].i = NBars /\ runs[2].i = NBars
    /\ runs[1].df[NBars] # runs[2].df[NBars]
    /\ Len(runs[1].strats[1].trades) = 1
    /\ runs[1].strats = runs[2].strats

\* C10: the step calls come in rounds, one round per bar with a valid close
\* in the order of the series; a round steps every instance once, in list
\* order, with the same timestamp, price and histories.
C10_Lockstep ==
    \A r \in DOMAIN runs :
        LET R == runs[r]
            K == Len(R.strats)
            v == ValidTs(R.df)
            done == ValidTs(SubSeq(R.df, 1, R.i - 1))
        IN  /\ \A n \in DOMAIN R.calls :
                  LET c == R.calls[n]
                      g == ((n - 1) \div K) + 1
                  IN  /\ c.sid = ((n - 1) % K) + 1
                      /\ g <= Len(v) /\ c.ts = v[g]
                      /\ c.price = BarAt(R.df, c.ts).close
                      /\ (n - 1) % K # 0 =>
                            /\ c.close = R.calls[n - 1].close
                            /\ c.df_full = R.calls[n - 1].df_full
            /\ R.pc # "steps" => Len(R.calls) = K * Len(done)
            /\ R.pc = "steps" => Len(R.calls) = K * Len(done) + R.j - 1

C10_Witness ==
    \E r \in DOMAIN runs :
        LET R == runs[r]
        IN  /\ R.pc = "steps" /\ R.j = 2 /\ Len(R.strats) = 2
            /\ Len(R.closes) = 2 /\ R.i = 3
            /\ Len(R.strats[1].equity_series) = 2
            /\ Len(R.strats[2].equity_series) = 1

\* A step leaves every instance but the stepped one as it was.
C11_Frame ==
    \A p \in Insts :
        (Stepped(p[1]) /\ StepCall(p[1]).sid # p[2]) =>
            runs'[p[1]].strats[p[2]] = Inst(p)

\* An instance without its strategy id and the ids stamped on its trades.
Unstamped(s) ==
    [cls |-> s.cls, par |-> s.par, fee |-> s.fee,
     position |-> s.position, cash |-> s.cash, aux |-> s.aux,
     equity_series |-> s.equity_series,
     trades |-> [n \in DOMAIN s.trades |->
                    [ts |-> s.trades[n].ts, side |-> s.trades[n].side,
                     price |-> s.trades[n].price, qty |-> s.trades[n].qty]]]

\* Instances of different calls on the same series, built from the same
\* spec, are equal but for the id whenever they have taken the same steps.
C11_Alone ==
    \A p, q \in Insts :
        (/\ p[1] # q[1]
         /\ runs[p[1]].df = runs[q[1]].df
         /\ runs[p[1]].specs[p[2]] = runs[q[1]].specs[q[2]]
         /\ Inst(p).cls # "StrategyBase"
         /\ Len(Inst(p).equity_series) = Len(Inst(q).equity_series)) =>
            Unstamped(Inst(p)) = Unstamped(Inst(q))

\* C11: a step changes no instance but the one it is called on, and an
\* instance stepped among others has the trades, the equity series and
\* the ledger of the same spec run alone on the same series, apart from
\* the strategy id stamped on its trades.
C11_Isolated == []C11_Alone /\ [][C11_Frame]_vars

C11_Witness ==
    /\ DOMAIN runs = {1, 2}
    /\ runs[1].pc = "done" /\ runs[2].pc = "done"
    /\ Len(runs[1].strats[1].trades) = 2
    /\ Len(runs[1].strats[2].trades) = 1
    /\ runs[1].strats[1].cls = "StrategyBase"
    /\ runs[1].strats[1].trades[1].ts < runs[1].strats[2].trades[1].ts
    /\ runs[2].strats[1].trades[1].sid # runs[1].strats[2].trades[1].sid

\* grid_search_one has returned or raised.
Finished == search.pc \in {"returned", "raised", "AssertionError"}

\* Evaluation n got a score above the sentinel.
ScoredAbove(n) ==
    search.evals[n].sc # None /\ FGt(search.evals[n].sc, Sentinel)

\* Evaluation n is the first one with the maximum score.
FirstMaximum(n) ==
    /\ \A k \in DOMAIN search.evals : FLe(search.evals[k].sc, search.evals[n].sc)
    /\ \A k \in 1..(n - 1) : FLt(search.evals[k].sc, search.evals[n].sc)

\* C12: grid_search_one evaluates every combination of the grid once, in
\* the order of the grid, each on a fresh instance; when a combination
\* scores above the sentinel it returns the parameters and the metrics of
\* the first combination with the maximum score; DonchianBreakout.grid is
\* the 8 combinations of ch, exit_ch, atr_n, atr_mult with ch slowest.
C12_FirstBestOfWholeGrid ==
    search.pc # "none" =>
        /\ Len(search.evals) <= Len(search.grid)
        /\ \A n \in DOMAIN search.evals :
              search.evals[n].params = search.grid[n]
        /\ search.pc = "replay" =>
              /\ search.strat.position = Zero
              /\ search.strat.cash = start_cash
              /\ search.strat.trades = <<>>
              /\ search.strat.equity_series = <<>>
              /\ search.strat.aux = None
        /\ Finished =>
              /\ Len(search.evals) = Len(search.grid)
              /\ \A n \in DOMAIN search.evals : search.evals[n].sc # None
        /\ (Finished /\ \E n \in DOMAIN search.evals : ScoredAbove(n)) =>
              /\ search.pc = "returned"
              /\ \E n \in DOMAIN search.evals :
                    /\ FirstMaximum(n)
                    /\ search.best_params = search.evals[n].params
                    /\ search.best_metrics = search.evals[n].m
        /\ DonchianGrid(FeeDefault) =
              <<[ch |-> 20, exit_ch |-> 10, atr_n |-> 14, atr_mult |-> FInt(2),
                 fee |-> FeeDefault],
                [ch |-> 20, exit_ch |-> 10, atr_n |-> 14,
                 atr_mult |-> FDiv(FInt(5), FInt(2)), fee |-> FeeDefault],
                [ch |-> 20, exit_ch |-> 15, atr_n |-> 14, atr_mult |-> FInt(2),
                 fee |-> FeeDefault],
                [ch |-> 20, exit_ch |-> 15, atr_n |-> 14,
                 atr_mult |-> FDiv(FInt(5), FInt(2)), fee |-> FeeDefault],
                [ch |-> 30, exit_ch |-> 10, atr_n |-> 14, atr_mult |-> FInt(2),
                 fee |-> FeeDefault],
                [ch |-> 30, exit_ch |-> 10, atr_n |-> 14,
                 atr_mult |-> FDiv(FInt(5), FInt(2)), fee |-> FeeDefault],
                [ch |-> 30, exit_ch |-> 15, atr_n |-> 14, atr_mult |-> FInt(2),
                 fee |-> FeeDefault],
                [ch |-> 30, exit_ch |-> 15, atr_n |-> 14,
                 atr_mult |-> FDiv(FInt(5), FInt(2)), fee |-> FeeDefault]>>

\* C13: when every combination of the grid scores the sentinel,
\* grid_search_one does not fail: it returns the parameters and the
\* metrics of one of the combinations.
C13_AllDisqualifiedStillReturns ==
    (/\ search.pc # "none"
     /\ Len(search.evals) = Len(search.grid)
     /\ \A n \in DOMAIN search.evals : search.evals[n].sc = Sentinel) =>
        /\ search.pc \in {"next", "returned"}
        /\ search.pc = "returned" =>
              \E n \in DOMAIN search.evals :
                 /\ search.best_params = search.evals[n].params
                 /\ search.best_metrics = search.evals[n].m

\* The score the claim states for an instance and its metrics result.
StatedScore(strat, m, min_trades, max_dd_cap) ==
    IF \/ m.kind = "empty"
       \/ Len(strat.trades) < min_trades
       \/ FLe(m.cagr, Zero)
       \/ FGt(m.max_dd, max_dd_cap)
    THEN Sentinel
    ELSE FSub(FAdd(FMul(FDiv(FInt(6), FInt(10)), m.sharpe),
                   FMul(FDiv(FInt(4), FInt(10)), FMul(m.cagr, FInt(100)))),
              FMul(FInt(2), FMul(m.max_dd, FInt(100))))

\* C14: score_metrics is the sentinel exactly when trades < min_trades or
\* cagr <= 0 or max_dd > max_dd_cap, an empty result included, and else
\* 0.6*sharpe + 0.4*(cagr*100) - 2.0*(max_dd*100); trades is the number of
\* entries of the trade log.
C14_Score ==
    search.pc # "none" =>
        \A n \in DOMAIN search.evals :
            LET e == search.evals[n]
            IN  e.sc # None =>
                   /\ e.sc = StatedScore(e.strat, e.m, search.min_trades,
                                         search.max_dd_cap)
                   /\ e.sc # Sentinel => FGt(e.sc, Sentinel)
                   /\ e.m.kind = "dict" => e.m.trades = Len(e.strat.trades)

C14_Witness ==
    /\ search.pc = "returned"
    /\ \E a, c \in DOMAIN search.evals :
          /\ search.evals[a].sc = Sentinel
          /\ search.evals[a].m.kind = "dict"
          /\ search.evals[a].m.trades = 1
          /\ ScoredAbove(c)
          /\ search.evals[c].m.trades = 1

\* The samples of an instance's equity series that have a value.
ValidSamples(s) == SelectSeq(s.equity_series, LAMBDA x : ~IsNaN(x.equity))

MetricsFields ==
    {"sid", "name", "final_equity", "pnl", "sharpe", "max_dd", "trades",
     "winrate", "cagr", "days"}

\* C20: metrics on an instance without a valid equity sample returns an
\* empty result and does not raise; with a valid sample it returns the
\* fields sid, name, final_equity, pnl, sharpe, max_dd, trades, winrate,
\* cagr, days, and pnl is the last valid equity minus the first.
C20_MetricsResult ==
    search.pc # "none" =>
        /\ search.pc = "replay" => Metrics(search.strat) = EmptyMetrics
        /\ \A n \in DOMAIN search.evals :
              LET e == search.evals[n]
                  valid == ValidSamples(e.strat)
              IN  IF valid = <<>> THEN e.m = EmptyMetrics
                  ELSE /\ e.m.kind = "dict"
                       /\ DOMAIN e.m \ {"kind"} = MetricsFields
                       /\ e.m.pnl = FSub(Last(valid).equity, valid[1].equity)

\* Every bar of df has the same close, a price above 0.
Constant(df) ==
    /\ FGt(df[1].close, Zero)
    /\ \A p \in DOMAIN df : df[p] = FlatBar(df[p].ts, df[1].close)

\* C15: on a strictly constant series none of MACDRSI, SMACross,
\* DonchianBreakout, BollingerReversion ever trades: after any number of
\* bars the trade log is empty, the position 0 and the equity start_cash.
C15_ConstantSeriesNoTrade ==
    \A p \in Insts :
        Constant(runs[p[1]].df) =>
            /\ Inst(p).trades = <<>>
            /\ Inst(p).position = Zero
            /\ Inst(p).cash = start_cash
            /\ \A n \in DOMAIN Inst(p).equity_series :
                  Inst(p).equity_series[n].equity = start_cash

C15_Witness ==
    /\ runs[1].pc = "done"
    /\ Constant(runs[1].df)
    /\ {runs[1].strats[k].cls : k \in DOMAIN runs[1].strats} =
          {"MACDRSI", "SMACross", "DonchianBreakout", "BollingerReversion"}
    /\ \A k \in DOMAIN runs[1].strats :
          /\ Len(runs[1].strats[k].equity_series) = StratBars
          /\ Last(runs[1].strats[k].equity_series).equity = start_cash

\* The classes with a percentage trailing stop on high_since_entry.
TrailClasses == {"MACDRSI", "SMACross"}

\* The prices of the step calls in calls on instance sid from ts on.
PricesSince(calls, sid, ts) ==
    {calls[n].price : n \in {n \in DOMAIN calls :
                                calls[n].sid = sid /\ calls[n].ts >= ts}}

\* The highest of a set of prices.
Highest(P) == CHOOSE x \in P : \A y \in P : FLe(y, x)

\* While a position is open high_since_entry is the highest price since
\* the entry bar and the last price is above the trailing stop.
C16_Open ==
    \A p \in Insts :
        LET s == Inst(p)
            calls == runs[p[1]].calls
            P == PricesSince(calls, s.sid, Last(s.trades).ts)
            last == CHOOSE n \in DOMAIN calls :
                       /\ calls[n].sid = s.sid
                       /\ \A k \in DOMAIN calls : calls[k].sid = s.sid => k <= n
        IN  (s.cls \in TrailClasses /\ FGt(s.position, Zero)) =>
               /\ s.aux = Highest(P)
               /\ FGt(calls[last].price,
                      FMul(Highest(P), FSub(FInt(1), s.par.trail_pct)))

\* A step on an open position at a price at or below the trailing stop
\* executes a SELL.
C16_Step ==
    \A r \in DOMAIN runs :
        LET P == PricesSince(runs'[r].calls, Before(r).sid,
                             Last(Before(r).trades).ts)
        IN  (/\ Stepped(r)
             /\ Before(r).cls \in TrailClasses
             /\ FGt(Before(r).position, Zero)
             /\ FLe(StepCall(r).price,
                    FMul(Highest(P), FSub(FInt(1), Before(r).par.trail_pct)))) =>
                /\ StepCall(r).sig = "SELL"
                /\ After(r).position = Zero
                /\ Len(After(r).trades) = Len(Before(r).trades) + 1
                /\ Last(After(r).trades).side = "SELL"
                /\ After(r).aux = None

\* C16: while a MACDRSI or SMACross position is open, high_since_entry is
\* the highest price from the entry bar through the current bar, the step
\* on the first bar with price <= high_since_entry*(1 - trail_pct) sells,
\* and after every step that leaves the position open the price is above
\* (1 - trail_pct) times the highest price since entry.
C16_TrailingStop == []C16_Open /\ [][C16_Step]_vars

C16_Witness ==
    \E p \in Insts :
        LET s == Inst(p)
        IN  /\ s.cls \in TrailClasses
            /\ Len(s.trades) = 2
            /\ s.trades[2].ts >= s.trades[1].ts + 2
            /\ FGt(Highest(PricesSince(runs[p[1]].calls, s.sid, s.trades[1].ts)),
                   s.trades[1].price)
            /\ s.trades[2].price =
                  FMul(Highest(PricesSince(runs[p[1]].calls, s.sid, s.trades[1].ts)),
                       FSub(FInt(1), s.par.trail_pct))

\* price - atr_mult * ATR on the bar history a step call was given.
DonchianCandidate(s, c) ==
    FSub(c.price, FMul(s.par.atr_mult,
                       atr(c.df_full, s.par.atr_n, Len(c.df_full))))

\* A step of a DonchianBreakout instance that enters sets trailing to
\* price - atr_mult*ATR; one that leaves the position open sets it to the
\* larger of its value and price - atr_mult*ATR, never to a smaller value.
C17_Step ==
    \A r \in DOMAIN runs :
        (Stepped(r) /\ Before(r).cls = "DonchianBreakout") =>
            /\ (Before(r).position = Zero /\ FGt(After(r).position, Zero)) =>
                  After(r).aux = DonchianCandidate(Before(r), StepCall(r))
            /\ (FGt(Before(r).position, Zero) /\ FGt(After(r).position, Zero)) =>
                  /\ After(r).aux =
                        PyMax(Before(r).aux,
                              DonchianCandidate(Before(r), StepCall(r)))
                  /\ ~FLt(After(r).aux, Before(r).aux)

\* C17: the trailing stop of DonchianBreakout is a ratchet: set at entry
\* to price - atr_mult*ATR, on every later bar of the open position it
\* becomes max(previous value, price - atr_mult*ATR) and so never
\* decreases, whatever value it has.
C17_TrailingRatchet == [][C17_Step]_vars

\* This transition is a step of a BollingerReversion instance in call r
\* that opens, keeps, or closes a position.
BollingerEnters(r) ==
    /\ Stepped(r) /\ Before(r).cls = "BollingerReversion"
    /\ Before(r).position = Zero /\ FGt(After(r).position, Zero)

BollingerKeeps(r) ==
    /\ Stepped(r) /\ Before(r).cls = "BollingerReversion"
    /\ FGt(Before(r).position, Zero) /\ FGt(After(r).position, Zero)

BollingerExits(r) ==
    /\ Stepped(r) /\ Before(r).cls = "BollingerReversion"
    /\ FGt(Before(r).position, Zero) /\ After(r).position = Zero

\* ATR on the bar history a step call of instance s was given.
AtrOfCall(s, c) == atr(c.df_full, s.par.atr_n, Len(c.df_full))

C18_StepAsStated ==
    \A r \in DOMAIN runs :
        /\ BollingerEnters(r) =>
              After(r).aux =
                 FSub(StepCall(r).price,
                      FMul(Before(r).par.atr_mult,
                           AtrOfCall(Before(r), StepCall(r))))
        /\ BollingerKeeps(r) => After(r).aux = Before(r).aux
        /\ BollingerExits(r) => After(r).aux = None

\* C18 as stated: stop_px is set on the entry bar to price - atr_mult*ATR,
\* is unchanged by every later step of the open position, and is None
\* after the step that exits.
C18_StaticStopAsStated == [][C18_StepAsStated]_vars

C18_Step ==
    \A r \in DOMAIN runs :
        /\ BollingerEnters(r) =>
              After(r).aux =
                 IF IsNaN(AtrOfCall(Before(r), StepCall(r))) THEN None
                 ELSE FSub(StepCall(r).price,
                           FMul(Before(r).par.atr_mult,
                                AtrOfCall(Before(r), StepCall(r))))
        /\ BollingerKeeps(r) => After(r).aux = Before(r).aux
        /\ BollingerExits(r) => After(r).aux = None

\* C18: stop_px is set on the entry bar to price - atr_mult*ATR, or to
\* None when ATR has no value on that bar; it is unchanged by every later
\* step of the open position, and is None after the step that exits.
C18_StaticStop == [][C18_Step]_vars

C18_Witness ==
    \E p \in Insts :
        LET s == Inst(p)
        IN  /\ s.cls = "BollingerReversion"
            /\ Len(s.trades) = 1 /\ FGt(s.position, Zero)
            /\ Last(s.equity_series).ts > s.trades[1].ts
            /\ s.aux # None
            /\ FLt(s.aux, s.trades[1].price)

\* The history given to _decide is too short for instance s to decide.
Insufficient(s, close, df_full) ==
    IF s.cls = "MACDRSI" THEN Len(close.vals) < 3
    ELSE IF s.cls = "SMACross"
    THEN Len(close.vals) < Max2(s.par.fast, s.par.slow) + 2
    ELSE IF s.cls = "DonchianBreakout"
    THEN df_full = NoFrame \/ Len(df_full) < Max2(s.par.ch, s.par.exit_ch) + 2
    ELSE IF s.cls = "BollingerReversion"
    THEN \/ df_full = NoFrame
         \/ Len(close.vals) <
               Max2(Max2(s.par.bb_period, s.par.rsi_period), s.par.atr_n) + 2
    ELSE FALSE

\* A step with insufficient history returns no signal and changes nothing
\* but the equity series, which gets the sample of the bar.
C19_Step ==
    \A r \in DOMAIN runs :
        (/\ Stepped(r)
         /\ Insufficient(Before(r), StepCall(r).close, StepCall(r).df_full)) =>
            /\ StepCall(r).sig = "NONE"
            /\ After(r) =
                  [Before(r) EXCEPT !.equity_series =
                      Append(@, [ts |-> StepCall(r).ts,
                                 equity |-> FAdd(Before(r).cash,
                                                 FMul(Before(r).position,
                                                      StepCall(r).price))])]

\* _decide of the classes that read the full bar history, called without
\* it (df_full=None) on the close history of the bar at hand.
C19_NoFrame ==
    \A p \in Insts :
        LET s == Inst(p)
            R == runs[p[1]]
        IN  (R.pc = "steps" /\ s.cls \in {"DonchianBreakout", "BollingerReversion"}) =>
               /\ Insufficient(s, R.cs, NoFrame)
               /\ Decide(s, R.ts, R.px, R.cs, NoFrame) = {Outcome("NONE", s.aux)}

\* C19: with insufficient history (fewer than 3 closes for MACDRSI, fewer
\* than max(fast, slow) + 2 for SMACross, no full bar history or fewer
\* than max(ch, exit_ch) + 2 bars for DonchianBreakout, no full bar
\* history or fewer than max(bb_period, rsi_period, atr_n) + 2 closes for
\* BollingerReversion) _decide returns None and leaves the auxiliary
\* state as it is; the step only records an equity sample.
C19_InsufficientHistoryHolds == []C19_NoFrame /\ [][C19_Step]_vars

C19_Witness ==
    /\ runs[1].pc = "done"
    /\ {runs[1].strats[k].cls : k \in DOMAIN runs[1].strats} =
          {"MACDRSI", "SMACross", "DonchianBreakout", "BollingerReversion"}
    /\ \A k \in DOMAIN runs[1].strats :
          Len(runs[1].strats[k].equity_series) = StratBars
    /\ \E k \in DOMAIN runs[1].strats :
          /\ runs[1].strats[k].cls = "DonchianBreakout"
          /\ Len(runs[1].strats[k].trades) >= 1
          /\ runs[1].strats[k].trades[1].ts = 3
    /\ \E k \in DOMAIN runs[1].strats :
          /\ runs[1].strats[k].cls = "BollingerReversion"
          /\ Len(runs[1].strats[k].trades) >= 1
          /\ runs[1].strats[k].trades[1].ts = 4
    /\ \E n \in DOMAIN runs[1].calls :
          /\ runs[1].strats[runs[1].calls[n].sid].cls = "BollingerReversion"
          /\ Len(runs[1].calls[n].close.vals) = 3
          /\ runs[1].calls[n].sig = "NONE"

(***************************************************************************)
(* Properties of the methods of one instance, under SpecClient.            *)
(***************************************************************************)
\* The last call was metrics and it returned the dictionary of line 149.
Reported == client.last = "metrics" /\ client.ret.kind = "dict"

\* The pairs (entry 2i, entry 2i+1) of a trade log, entries counted from 0.
Pairs(trades) ==
    {i \in 1..(Len(trades) \div 2) : TRUE}

IsWin(trades, i) ==
    FGt(FMul(FSub(trades[2 * i].price, trades[2 * i - 1].price),
             trades[2 * i - 1].qty), Zero)

\* The instance with the log [BUY@10, SELL@12, BUY@14, SELL@11].
ExampleLogInstance ==
    LET s0 == NewStrategy(1, AnySpec(FeeDefault))
        s1 == Step(s0, Outcome("BUY", None), DayTs(1), FInt(10))
        s2 == Step(s1, Outcome("SELL", None), DayTs(2), FInt(12))
        s3 == Step(s2, Outcome("BUY", None), DayTs(3), FInt(14))
    IN  Step(s3, Outcome("SELL", None), DayTs(4), FInt(11))

\* C21: the winrate metrics reports is wins / max(1, wins + losses), where
\* the pairs (2i, 2i+1) of the trade log are the wins and losses, a pair
\* being a win iff (sell price - buy price) * buy quantity > 0 and a loss
\* otherwise, so that wins + losses = floor(len(trades) / 2); the log
\* [BUY@10, SELL@12, BUY@14, SELL@11] gives 1 win, 1 loss, winrate 0.5.
C21_WinLossPairing ==
    /\ Reported =>
          LET trades == client.strat.trades
              wins == Cardinality({i \in Pairs(trades) : IsWin(trades, i)})
              losses == Cardinality({i \in Pairs(trades) : ~IsWin(trades, i)})
          IN  /\ wins + losses = Len(trades) \div 2
              /\ client.ret.trades = Len(trades)
              /\ client.ret.winrate =
                     FDiv(FInt(wins), FInt(Max2(1, wins + losses)))
    /\ client.last = "__init__" =>
          /\ Len(ExampleLogInstance.trades) = 4
          /\ WinLossLoop(ExampleLogInstance.trades, 2) = [wins |-> 1, losses |-> 1]
          /\ Metrics(ExampleLogInstance).winrate = FDiv(FInt(1), FInt(2))

\* A report on a log of a winning pair and a break-even pair: winrate 1/2.
C21_Witness ==
    /\ Reported
    /\ Len(client.strat.trades) = 4
    /\ IsWin(client.strat.trades, 1)
    /\ client.strat.trades[4].price = client.strat.trades[3].price
    /\ client.ret.winrate = FDiv(FInt(1), FInt(2))

\* The equity values of the samples, those without a value left out.
ValidEquity(s) ==
    LET valid == SelectSeq(s.equity_series, LAMBDA x : ~IsNaN(x.equity))
    IN  [n \in 1..Len(valid) |-> valid[n].equity]

\* The running peak of the first n values.
RunningPeak(vals, n) == FoldMax(vals, 1, n)

\* (running peak - value) / running peak at the n-th value, 0 while the
\* running peak is <= 0.
DrawdownAt(vals, n) ==
    LET peak == RunningPeak(vals, n)
    IN  IF FGt(peak, Zero) THEN FDiv(FSub(peak, vals[n]), peak) ELSE Zero

\* C22: for every instance state reachable by any sequence of step calls,
\* metrics reports 0 <= max_dd <= 1, max_dd being the maximum over the
\* equity series of (running peak - value) / running peak, with 0 while the
\* running peak is <= 0; and cagr = 0 whenever the first valid equity value
\* is <= 0.
C22_MaxDdInUnitRange ==
    Reported =>
        LET vals == ValidEquity(client.strat)
            dds == [n \in 1..Len(vals) |-> DrawdownAt(vals, n)]
        IN  /\ client.ret.max_dd = FoldMax(dds, 1, Len(dds))
            /\ FGe(client.ret.max_dd, Zero)
            /\ FLe(client.ret.max_dd, FInt(1))
            /\ FLe(vals[1], Zero) => client.ret.cagr = Zero

\* The spec an instance was constructed from.
SpecOf(s) == [cls |-> s.cls, par |-> s.par, fee |-> s.fee]

\* What the step calls on the bar after the frame df can leave of s.
StepsOn(s, df) ==
    {LET ts == DayTs(Len(df) + 1)
         ext == Append(df, FlatBar(ts, px))
         cs == CloseSeries(ext, Column(ext, "close"))
     IN  {Step(s, d, ts, px) : d \in Decide(s, ts, px, cs, ext)} :
        px \in ClientPrices}

C23_Call ==
    CallReset =>
        LET s == client.strat
            a == client'.strat
        IN  /\ a.position = Zero /\ a.cash = start_cash
            /\ a.trades = <<>> /\ a.equity_series = <<>>
            /\ a.aux = None
            /\ a.sid = s.sid /\ a.fee = s.fee /\ a.par = s.par /\ a.cls = s.cls
            /\ a = NewStrategy(s.sid, SpecOf(s))
            /\ StepsOn(a, <<>>) = StepsOn(NewStrategy(s.sid, SpecOf(s)), <<>>)
            /\ client.last = "reset" => a = s

\* C23: reset after any sequence of step calls restores position = 0,
\* cash = start_cash, an empty trade log, an empty equity series and the
\* auxiliary state None, and leaves sid, name, fee and the parameters as
\* they are; the instance then behaves like a freshly constructed one with
\* the same parameters, and a second reset changes nothing.
C23_ResetRestoresStart == [][C23_Call]_vars

\* A second reset in a row, the first on an instance with an open position,
\* a trailing stop or entry high, trades and equity samples.
C23_Witness ==
    /\ client.last = "reset" /\ client.rep = 2
    /\ client.held.open /\ client.held.aux
    /\ client.held.trades > 0 /\ client.held.samples > 1
    /\ client.strat.cls # "StrategyBase"

C25_Call ==
    client'.last = "metrics" /\ CallMetrics =>
        LET s == client.strat
            a == client'.strat
        IN  /\ a.position = s.position /\ a.cash = s.cash
            /\ a.trades = s.trades /\ a.equity_series = s.equity_series
            /\ a.aux = s.aux
            /\ a = s
            /\ client.last = "metrics" => client'.ret = client.ret

\* C25: a call of metrics, at any point between steps and any number of
\* times, leaves position, cash, trade log, equity series and auxiliary
\* state unchanged, and a call that follows another with no step in between
\* returns the same result.
C25_MetricsReadOnly == [][C25_Call]_vars

\* A second report in a row on an instance holding a position and its
\* auxiliary state.
C25_Witness ==
    /\ Reported /\ client.rep = 2
    /\ FGt(client.strat.position, Zero)
    /\ client.strat.aux # None
    /\ Len(client.strat.equity_series) > 1

(***************************************************************************)
(* Further properties of run_backtest_multi.                               *)
(***************************************************************************)
\* C24: run_backtest_multi returns one instance per spec, in the order of
\* the specs, the i-th having sid = i, so that the ids are unique and
\* sequential from 1; every trade an instance logs carries its sid.
C24_SidsFollowSpecs ==
    \A r \in DOMAIN runs :
        LET R == runs[r]
        IN  /\ Len(R.strats) = Len(R.specs)
            /\ \A k \in DOMAIN R.strats :
                  /\ R.strats[k].sid = k
                  /\ SpecOf(R.strats[k]) = R.specs[k]
                  /\ \A n \in DOMAIN R.strats[k].trades :
                        R.strats[k].trades[n].sid = k
            /\ \A k, l \in DOMAIN R.strats :
                  R.strats[k].sid = R.strats[l].sid => k = l

\* A returned call with two instances that have both traded.
C24_Witness ==
    \E r \in DOMAIN runs :
        /\ runs[r].pc = "done"
        /\ Len(runs[r].strats) = 2
        /\ \A k \in 1..2 : Len(runs[r].strats[k].trades) > 1

(***************************************************************************)
(* Properties of the indicator functions, under SpecAtr.                   *)
(***************************************************************************)
\* The true range of the bar at position p (from 1): the largest of
\* high - low, |high - prev_close| and |low - prev_close|.
StatedTrueRange(df, p) ==
    LET prev_c == IF p = 1 THEN NaN ELSE df[p - 1].close
        hl == FSub(df[p].high, df[p].low)
        hc == FAbs(FSub(df[p].high, prev_c))
        lc == FAbs(FSub(df[p].low, prev_c))
    IN  IF IsNaN(hl) \/ IsNaN(hc) \/ IsNaN(lc) THEN NaN
        ELSE FoldMax(<<hl, hc, lc>>, 1, 3)

\* The same with the terms that have no value left out: high - low alone
\* for the first bar and after a bar without a close.
AvailableTrueRange(df, p) ==
    LET prev_c == IF p = 1 THEN NaN ELSE df[p - 1].close
        hl == FSub(df[p].high, df[p].low)
        hc == FAbs(FSub(df[p].high, prev_c))
        lc == FAbs(FSub(df[p].low, prev_c))
        terms == SelectSeq(<<hl, hc, lc>>, LAMBDA x : ~IsNaN(x))
    IN  IF terms = <<>> THEN NaN ELSE FoldMax(terms, 1, Len(terms))

\* The simple mean of the n values of col that end at position p, if each
\* of them has a value.
MeanOfLast(col, n, p) ==
    IF \E q \in (p - n + 1)..p : IsNaN(col[q]) THEN NaN
    ELSE FDiv(FoldSum(col, p - n + 1, p), FInt(n))

AtrReturned == ind.pc = "returned" /\ ind.fn = "atr"

\* C26 as stated: no value at the first n positions, the mean over the last
\* n bars of max(high - low, |high - prev_close|, |low - prev_close|) from
\* then on.
C26_AtrAsStated ==
    AtrReturned =>
        LET tr == [p \in 1..Len(ind.df) |-> StatedTrueRange(ind.df, p)]
        IN  \A p \in 1..Len(ind.df) :
               ind.out[p] = IF p <= ind.n THEN NaN
                            ELSE MeanOfLast(tr, ind.n, p)

\* C26: atr(bars, n) has no value for the first n - 1 bars and from then on
\* is the simple mean over the last n bars of the true range, the largest
\* of those of high - low, |high - prev_close|, |low - prev_close| that have
\* a value; it has no value while a bar without data is among the n bars.
C26_Atr ==
    AtrReturned =>
        LET tr == [p \in 1..Len(ind.df) |-> AvailableTrueRange(ind.df, p)]
        IN  \A p \in 1..Len(ind.df) :
               ind.out[p] = IF p < ind.n THEN NaN
                            ELSE MeanOfLast(tr, ind.n, p)

\* A call with n = 2 on bars with data whose second bar has a true range
\* above its high - low: values from the second bar on.
C26_Witness ==
    /\ AtrReturned /\ ind.n = 2
    /\ \A p \in 1..Len(ind.df) : ~IsNaN(ind.df[p].close)
    /\ FGt(StatedTrueRange(ind.df, 2), FSub(ind.df[2].high, ind.df[2].low))
    /\ IsNaN(ind.out[1])
    /\ \A p \in 2..Len(ind.df) : IsFin(ind.out[p])
    /\ FGt(ind.out[2], Zero)

(***************************************************************************)
(* Further properties of the strategies and of the ledger.                 *)
(***************************************************************************)
\* The classes whose auxiliary state is set on every executed BUY.
AlwaysSetClasses == {"MACDRSI", "SMACross", "DonchianBreakout"}

\* C28: after every step of a backtest, an instance that is flat has the
\* auxiliary state None (high_since_entry, trailing, stop_px), and an
\* instance of MACDRSI, SMACross or DonchianBreakout with position > 0 has
\* an auxiliary state that is not None: it is set on the bar the BUY is
\* executed, cleared on the bar the SELL is executed and never left over.
C28_AuxTiedToPosition ==
    \A i \in Insts :
        /\ Inst(i).position = Zero => Inst(i).aux = None
        /\ (Inst(i).cls \in AlwaysSetClasses /\ FGt(Inst(i).position, Zero))
              => Inst(i).aux # None

\* Exactly one of cash and position is non-zero: no cash while a position
\* is held, cash while flat.
AllInAllOut(s) ==
    /\ (s.cash = Zero) # (s.position = Zero)
    /\ FGt(s.position, Zero) => s.cash = Zero
    /\ s.position = Zero => FGt(s.cash, Zero)

\* This transition is a step in call r that gets BUY while flat.
BuyWhileFlat(r) ==
    Stepped(r) /\ StepCall(r).sig = "BUY" /\ Before(r).position = Zero

\* The claim as it is stated: a BUY received while flat is always executed.
C29_StepAsStated ==
    \A r \in DOMAIN runs :
        BuyWhileFlat(r) =>
            /\ FGt(After(r).position, Zero)
            /\ Len(After(r).trades) = Len(Before(r).trades) + 1

\* C29 as stated: exactly one of cash and position is non-zero, cash == 0
\* whenever position > 0, cash > 0 whenever position == 0, and a BUY
\* received while flat is always executed.
C29_AllInAllOutAsStated ==
    /\ [](\A i \in Insts : AllInAllOut(Inst(i)))
    /\ [][C29_StepAsStated]_vars

\* The quantity cash / (price * (1 + fee)) of a BUY exceeds the epsilon.
AboveEpsilon(s, price) ==
    FGt(FDiv(s.cash, FMul(price, FAdd(FInt(1), s.fee))),
        FDiv(FInt(1), FInt(1000000000)))

C29_Step ==
    \A r \in DOMAIN runs :
        BuyWhileFlat(r) =>
            IF AboveEpsilon(Before(r), StepCall(r).price)
            THEN /\ FGt(After(r).position, Zero)
                 /\ Len(After(r).trades) = Len(Before(r).trades) + 1
            ELSE /\ After(r).position = Zero
                 /\ After(r).cash = Before(r).cash
                 /\ After(r).trades = Before(r).trades

\* C29: with exact arithmetic, positive prices, 0 <= fee < 1 and
\* start_cash > 0, in every reachable state exactly one of cash and position
\* is non-zero: cash == 0 whenever position > 0 and cash > 0 whenever
\* position == 0; a BUY received while flat is executed exactly when its
\* quantity cash / (price * (1 + fee)) exceeds the epsilon.
C29_AllInAllOut ==
    /\ [](\A i \in Insts : AllInAllOut(Inst(i)))
    /\ [][C29_Step]_vars

\* An instance with a fee that holds a position and no cash after a BUY, a
\* SELL and a second BUY, and that was flat when it got a BUY whose
\* quantity was too small to be executed.
C29_Witness ==
    \E i \in Insts :
        LET s == Inst(i)
            calls == runs[i[1]].calls
        IN  /\ s.fee # Zero
            /\ Len(s.trades) = 3
            /\ FGt(s.position, Zero) /\ s.cash = Zero
            /\ \E n \in DOMAIN calls :
                  /\ calls[n].sig = "BUY" /\ calls[n].price = Huge
                  /\ calls[n].ts < s.trades[1].ts

\* The entries of a trade log come in pairs, a BUY and then a SELL of the
\* same quantity.
PairedQuantities(trades) ==
    \A n \in DOMAIN trades :
        IF n % 2 = 1 THEN trades[n].side = "BUY"
        ELSE /\ trades[n].side = "SELL"
             /\ trades[n - 1].side = "BUY"
             /\ trades[n].qty = trades[n - 1].qty

\* A step that logs a SELL sells the whole position and credits
\* quantity * price * (1 - fee).
C30_Step ==
    \A r \in DOMAIN runs :
        (/\ Stepped(r)
         /\ Len(After(r).trades) = Len(Before(r).trades) + 1
         /\ Last(After(r).trades).side = "SELL") =>
            LET sell == Last(After(r).trades)
            IN  /\ sell.qty = Before(r).position
                /\ sell.qty = Last(Before(r).trades).qty
                /\ sell.price = StepCall(r).price
                /\ After(r).position = Zero
                /\ After(r).cash =
                       FAdd(Before(r).cash,
                            FMul(FMul(sell.qty, sell.price),
                                 FSub(FInt(1), Before(r).fee)))

\* C30: every SELL entry of a trade log has the quantity of the BUY entry
\* immediately before it (no partial fills), and the cash that SELL credits
\* is quantity * price * (1 - fee).
C30_FullLiquidation ==
    /\ [](\A i \in Insts : PairedQuantities(Inst(i).trades))
    /\ [][C30_Step]_vars

\* An instance with a fee that has sold twice, at a price other than that
\* of the BUY before.
C30_Witness ==
    \E i \in Insts :
        LET s == Inst(i)
        IN  /\ s.fee # Zero
            /\ Len(s.trades) = 4
            /\ s.trades[2].price # s.trades[1].price
            /\ s.trades[4].qty # s.trades[2].qty
            /\ s.position = Zero


\* A step appends at most one entry to the trade log, stamped with the
\* timestamp of the row the runner is at.
C31_Step ==
    \A r \in DOMAIN runs :
        Stepped(r) =>
            /\ Len(After(r).trades) <= Len(Before(r).trades) + 1
            /\ SubSeq(After(r).trades, 1, Len(Before(r).trades)) = Before(r).trades
            /\ Len(After(r).trades) > Len(Before(r).trades) =>
                  /\ Last(After(r).trades).ts = StepCall(r).ts
                  /\ StepCall(r).ts = runs[r].df[runs[r].i].ts

\* The bars of every call have strictly increasing timestamps, and so have
\* the trades of every instance.
C31_Increasing ==
    /\ \A r \in DOMAIN runs : \A a, b \in DOMAIN runs[r].df :
           a < b => runs[r].df[a].ts < runs[r].df[b].ts
    /\ \A p \in Insts : \A a, b \in DOMAIN Inst(p).trades :
           a < b => Inst(p).trades[a].ts < Inst(p).trades[b].ts

\* C31: a single step appends at most one trade-log entry, each entry has
\* the timestamp of the bar being stepped, and with strictly increasing
\* bar timestamps the trade timestamps of an instance are strictly
\* increasing.
C31_OneTradePerBar == []C31_Increasing /\ [][C31_Step]_vars

C31_Witness ==
    \E p \in Insts :
        LET t == Inst(p).trades
        IN  /\ Len(t) = 3
            /\ t[2].ts = t[1].ts + 1 /\ t[3].ts = t[2].ts + 1
            /\ t[2].side = "SELL" /\ t[3].side = "BUY"

\* close < rolling min(low, exit_ch) on the bar history of a step call.
ChannelExit(s, c) ==
    LET n == Len(c.df_full)
    IN  FLt(c.df_full[n].close,
            RollingMin(Column(c.df_full, "low"), s.par.exit_ch, n))

\* price < trailing, the stop raised to price - atr_mult * ATR first.
TrailingExit(s, c) ==
    FLt(c.price, PyMax(s.aux, DonchianCandidate(s, c)))

\* Every bar of the series has low <= close.
LowBelowClose(df) == \A p \in DOMAIN df : FLe(df[p].low, df[p].close)

\* A step of a DonchianBreakout instance in position returns SELL exactly
\* on one of the two exit conditions; on a series with low <= close in
\* every bar the channel condition is false.
C32_Step ==
    \A r \in DOMAIN runs :
        (/\ Stepped(r) /\ Before(r).cls = "DonchianBreakout"
         /\ FGt(Before(r).position, Zero)) =>
            /\ StepCall(r).sig = "SELL" <=>
                  \/ ChannelExit(Before(r), StepCall(r))
                  \/ TrailingExit(Before(r), StepCall(r))
            /\ LowBelowClose(runs[r].df) =>
                  /\ ~ChannelExit(Before(r), StepCall(r))
                  /\ StepCall(r).sig = "SELL" =>
                        TrailingExit(Before(r), StepCall(r))

\* C32: a DonchianBreakout instance in position sells when close < rolling
\* min(low, exit_ch) or price < trailing; in a series whose bars all have
\* low <= close the channel condition is never true, so every SELL of it
\* is caused by the trailing stop.
C32_DonchianExits == [][C32_Step]_vars

\* A SELL by the trailing stop on a bar that closes above its low, in a
\* series with low <= close throughout.
C32_Witness ==
    \E p \in Insts :
        LET s == Inst(p)
            R == runs[p[1]]
        IN  /\ s.cls = "DonchianBreakout" /\ Len(s.trades) = 2
            /\ LowBelowClose(R.df)
            /\ FLt(BarAt(R.df, s.trades[2].ts).low, s.trades[2].price)


\* C33: the inline replay of grid_search_one is equivalent to the runner:
\* for every series and every combination the instance it steps ends with
\* the trade log, equity series and metrics of
\* run_backtest_multi(df, [(StrategyCls, params)])[0], and each
\* combination starts from a new instance.
C33_ReplayIsRunner ==
    search.pc # "none" =>
        /\ search.pc = "replay" =>
              search.strat =
                 NewStrategy(1, ParamsSpec(search.cls,
                                           search.grid[search.g + 1]))
        /\ \A k \in DOMAIN search.evals :
              LET e == search.evals[k]
                  s == run_backtest_multi(
                           search.df, <<ParamsSpec(search.cls, e.params)>>)[1]
              IN  /\ e.params = search.grid[k]
                  /\ e.strat.trades = s.trades
                  /\ e.strat.equity_series = s.equity_series
                  /\ e.strat = s
                  /\ e.m = Metrics(s)

\* Both combinations evaluated on a series with an invalid close, the
\* first with a trade and returned metrics, the second without a trade.
C33_Witness ==
    /\ search.pc # "none" /\ Len(search.evals) = 2
    /\ \E p \in DOMAIN search.df : IsNaN(search.df[p].close)
    /\ Len(search.evals[1].strat.trades) > 0
    /\ search.evals[1].m.kind = "dict"
    /\ Len(search.evals[2].strat.equity_series) = NBars - 1


\* The handlers leave the results of the symbols they do not recompute,
\* and a change of symbol leaves the selected strategy.
C38_Step ==
    /\ (viewer.pc = "shown" /\ viewer'.pc = "backtest") =>
           /\ viewer'.todo = <<viewer.current_sym>>
           /\ viewer'.results = viewer.results
    /\ (viewer.pc = "shown" /\ viewer'.pc = "shown") =>
           viewer'.results = viewer.results
    /\ (viewer.pc = "backtest" /\ Len(viewer.results[Head(viewer.todo)]) > 0) =>
           /\ \A sym \in DOMAIN viewer.results :
                  sym # viewer.current_sym =>
                     viewer'.results[sym] = viewer.results[sym]
           /\ \A k \in DOMAIN viewer'.results[viewer.current_sym] :
                  viewer'.results[viewer.current_sym][k].fee = viewer.current_fee
    /\ (viewer.pc = "shown" /\ viewer'.current_sym # viewer.current_sym) =>
           viewer'.current_key = viewer.current_key

\* What is on the figure: an instance of the current symbol's results,
\* of the selected class, computed with the fee of the title, which is
\* current_fee.
C38_Shown ==
    viewer.pc = "shown" =>
        /\ viewer.title = [sym |-> viewer.current_sym, fee |-> viewer.current_fee]
        /\ \E k \in DOMAIN viewer.results[viewer.current_sym] :
               viewer.plotted = viewer.results[viewer.current_sym][k]
        /\ viewer.plotted.cls = viewer.current_key
        /\ viewer.plotted.fee = viewer.title.fee

\* C38: a fee submission recomputes the results of the current symbol
\* only and leaves those of every other symbol; after any sequence of fee
\* submissions and symbol changes the results displayed for the current
\* symbol were computed with the fee of the title (current_fee), and the
\* selected strategy is kept across symbol changes.
C38_ViewerShowsCurrentFee == []C38_Shown /\ [][C38_Step]_vars

(***************************************************************************)
(* run_live of live.py: one live window.  Its callbacks run on the GUI     *)
(* event loop, which turns while plt.show blocks and during the            *)
(* plt.pause(0.01) of _draw_first; stack holds the frames that are         *)
(* suspended in that pause.                                                *)
(***************************************************************************)
\* Values of the hist_bars and reopt_every arguments of the calls modelled.
hist_bars == 2

reopt_every == 2

\* The exchange serves the bars 1..hist_bars + LiveBars.
LiveBars == 3

\* The timers one window creates in a run of the model.
MaxTimers == 2

LastBar == hist_bars + LiveBars

\* "TrendStrategy" is a subclass of StrategyBase of the caller's: its
\* _decide and its grid are the caller's.
_label_for_strategy_class(cls) ==
    IF cls = "TrendStrategy" THEN "Trend" ELSE cls

\* Cls(sid=..., **_defaults_for(Cls))
_defaults_for(cls) ==
    IF cls = "DonchianBreakout"
    THEN DonchianSpec([ch |-> 20, exit_ch |-> 10, atr_n |-> 14,
                       atr_mult |-> FInt(2)], FeeDefault)
    ELSE [cls |-> cls, par |-> NoParams, fee |-> FeeDefault]

_instantiate_for_mode(strategies_to_try, mode, pick) ==
    IF mode = "all"
    THEN [i \in DOMAIN strategies_to_try |->
             NewStrategy(i, _defaults_for(strategies_to_try[i]))]
    ELSE <<NewStrategy(1, _defaults_for(IF pick = "None"
                                        THEN strategies_to_try[1]
                                        ELSE pick))>>

\* BinanceBroker(symbol, fee=0.001, paper=True)
BinanceBroker ==
    [fee |-> FeeDefault, cash |-> start_cash, position |-> Zero,
     trades |-> <<>>]

Order(side, price, qty) == [side |-> side, price |-> price, qty |-> qty]

\* The quantity market_buy fills: cut down when its cost exceeds the cash.
FilledQty(b, qty, price) ==
    IF FGt(FMul(FMul(qty, price), OnePlusFee(b)), b.cash)
    THEN FDiv(b.cash, FMul(price, OnePlusFee(b)))
    ELSE qty

market_buy(b, qty, price) ==
    [b EXCEPT !.cash = FSub(@, FMul(FMul(FilledQty(b, qty, price), price),
                                    OnePlusFee(b))),
              !.position = FAdd(@, FilledQty(b, qty, price)),
              !.trades = Append(@, Order("BUY", price,
                                         FilledQty(b, qty, price)))]

market_sell(b, qty, price) ==
    [b EXCEPT !.cash = FAdd(@, FMul(FMul(qty, price), OneMinusFee(b))),
              !.position = FSub(@, qty),
              !.trades = Append(@, Order("SELL", price, qty))]

\* fetch_klines(sym, limit=hist_bars): the hist_bars bars that end at bar end.
History(end, px) ==
    [p \in 1..hist_bars |-> FlatBar(end - hist_bars + p, px)]

\* _reset_runtime up to the call of _load_history, which raised.
ResetRaised(L, sym, mode) ==
    [L EXCEPT !.state.symbol = sym, !.state.mode = mode]

_reset_runtime(L, sym, pick_cls, mode, df) ==
    [L EXCEPT !.state.symbol = sym, !.state.mode = mode,
              !.state.df = df, !.state.last_ts = Last(df).ts,
              !.state.bars_since_opt = 0,
              !.state.broker = BinanceBroker,
              !.state.strats =
                  _instantiate_for_mode(L.args.strategies_to_try, mode,
                                        pick_cls)]

\* df.loc[ts, ...] = row, then the cut to the last hist_bars rows.
WithRow(df, ts, px) ==
    IF Len(df) + 1 > hist_bars
    THEN SubSeq(Append(df, FlatBar(ts, px)), Len(df) + 2 - hist_bars,
                Len(df) + 1)
    ELSE Append(df, FlatBar(ts, px))

\* The outcomes of _decide for every strategy of the list, in order.
Decisions(strats, ts, px, df) ==
    {ds \in [DOMAIN strats ->
                {Outcome(sig, strats[i].aux) :
                    sig \in Signals, i \in DOMAIN strats}] :
        \A i \in DOMAIN strats :
           ds[i] \in Decide(strats[i], ts, px,
                            CloseSeries(df, Column(df, "close")), df)}

\* signals: the side of the trade a strategy stamped with this bar.
TickSignal(s, ts) ==
    IF s.trades # <<>> /\ Last(s.trades).ts = ts
    THEN Last(s.trades).side ELSE "NONE"

Votes(strats, ts, side) ==
    Cardinality({i \in DOMAIN strats : TickSignal(strats[i], ts) = side})

TickAction(strats, mode, ts) ==
    IF mode = "best" THEN TickSignal(strats[1], ts)
    ELSE IF Votes(strats, ts, "BUY") > Len(strats) \div 2 THEN "BUY"
    ELSE IF Votes(strats, ts, "SELL") > Len(strats) \div 2 THEN "SELL"
    ELSE "NONE"

\* The broker after the action of the bar.
Routed(b, action, px) ==
    IF action = "BUY" /\ b.position = Zero
    THEN market_buy(b, FDiv(b.cash, px), px)
    ELSE IF action = "SELL" /\ FGt(b.position, Zero)
    THEN market_sell(b, b.position, px)
    ELSE b

\* The combinations of Cls.grid that can come out best on the frame train:
\* a Donchian instance trades only once its channel window is full.
LiveGrid(cls, train) ==
    IF cls = "DonchianBreakout"
    THEN {[ch |-> g.ch, exit_ch |-> g.exit_ch, atr_n |-> g.atr_n,
           atr_mult |-> g.atr_mult] :
             g \in {DonchianGrid(FeeDefault)[n] :
                       n \in {k \in DOMAIN DonchianGrid(FeeDefault) :
                                 DonchianGrid(FeeDefault)[k].ch < Len(train)}}}
    ELSE {[NoParams EXCEPT !.ch = 1]}

\* grid_search_one(train, Cls, fee=0.001): best parameters, or it raises.
SearchOutcomes(cls, train) ==
    {[raised |-> TRUE, p |-> NoParams]}
       \cup {[raised |-> FALSE, p |-> p] : p \in LiveGrid(cls, train)}

ReoptOutcomes(strats, train) ==
    {rs \in [DOMAIN strats ->
                UNION {SearchOutcomes(strats[i].cls, train) :
                          i \in DOMAIN strats}] :
        \A i \in DOMAIN strats :
           rs[i] \in SearchOutcomes(strats[i].cls, train)}

\* The searches _reopt_short runs: all of the list, or only the first.
Searched(strats, mode) ==
    IF mode = "all" THEN DOMAIN strats ELSE {1}

ReoptFailed(strats, mode, rs) ==
    \E i \in Searched(strats, mode) : rs[i].raised

_reopt_short(strats, mode, rs) ==
    IF ReoptFailed(strats, mode, rs) THEN strats
    ELSE [i \in Searched(strats, mode) |->
             NewStrategy(i, [cls |-> strats[i].cls, par |-> rs[i].p,
                             fee |-> FeeDefault])]

Due(L) == L.state.bars_since_opt + 1 >= reopt_every

\* What the last on_tick fetched and what it did with it.
Did(ts, out) == [ts |-> ts, out |-> out]

\* on_tick on a bar newer than last_ts, with _decide outcomes ds and
\* search outcomes rs.
NewBar(L, ts, px, ds, rs) ==
    [L EXCEPT
        !.state.df = WithRow(@, ts, px),
        !.state.last_ts = ts,
        !.state.broker =
            Routed(@, TickAction([i \in DOMAIN ds |->
                                     Step(L.state.strats[i], ds[i], ts, px)],
                                 L.state.mode, ts), px),
        !.state.bars_since_opt = IF Due(L) THEN 0 ELSE @ + 1,
        !.state.strats =
            IF Due(L)
            THEN _reopt_short([i \in DOMAIN ds |-> Step(@[i], ds[i], ts, px)],
                              L.state.mode, rs)
            ELSE [i \in DOMAIN ds |-> Step(@[i], ds[i], ts, px)],
        !.last = Did(ts,
                     IF ~Due(L) THEN "bar"
                     ELSE IF ReoptFailed(L.state.strats, L.state.mode, rs)
                     THEN "reopt_failed" ELSE "reopt")]

\* The event loop turns until the window is closed: in plt.show and in
\* the plt.pause of a suspended frame.
Dispatching == live.pc = "open"

\* on_tick returning at line 212 only for a bar older than last_ts.
NewTsOrSame(last_ts) == {ts \in 1..LastBar : ts = last_ts \/ ts = last_ts + 1}

\* Timestamps of a fetched bar that is newer than last_ts: the next bar.
NewTs(last_ts) == {ts \in 1..LastBar : ts = last_ts + 1}

\* Timestamps of a fetched bar that is not newer than last_ts.
StaleTs(last_ts) == {ts \in 1..last_ts : ts = last_ts}

\* The timer t fires on_tick.
on_tick(t) ==
    /\ Dispatching
    /\ t \in DOMAIN live.timers /\ live.timers[t]
    /\ \/ live' = live
       \/ \E ts \in StaleTs(live.state.last_ts) :
             live' = [live EXCEPT !.last = Did(ts, "stale")]
       \/ \E ts \in NewTs(live.state.last_ts), px \in live.quotes :
             \E ds \in Decisions(live.state.strats, ts, px,
                                 WithRow(live.state.df, ts, px)) :
                \E rs \in ReoptOutcomes(live.state.strats,
                                         WithRow(live.state.df, ts, px)) :
                   /\ ~Due(live) => \A i \in DOMAIN rs : rs[i].raised
                   /\ live' = NewBar(live, ts, px, ds, rs)
    /\ UNCHANGED <<runs, search, client, ind, viewer>>

\* The window can still take an Apply within the timers of the model.
CanApply == Len(live.timers) + Len(live.stack) < MaxTimers

_on_symbol_change(val) ==
    /\ Dispatching
    /\ val \in {live.args.symbols[i] : i \in DOMAIN live.args.symbols}
    /\ CanApply
    /\ live' = [live EXCEPT !.pending.symbol = val]
    /\ UNCHANGED <<runs, search, client, ind, viewer>>

strat_labels(strategies_to_try) ==
    {"[All]"} \cup {_label_for_strategy_class(strategies_to_try[i]) :
                       i \in DOMAIN strategies_to_try}

_on_strategy_change(val) ==
    /\ Dispatching
    /\ val \in strat_labels(live.args.strategies_to_try)
    /\ CanApply
    /\ live' = [live EXCEPT !.pending.strategy = val]
    /\ UNCHANGED <<runs, search, client, ind, viewer>>

\* t.stop() and state["timer"] = None, when there is a timer.
Stopped(L) ==
    IF L.state.timer = 0 THEN L
    ELSE [L EXCEPT !.timers[L.state.timer] = FALSE, !.state.timer = 0]

\* new_timer, add_callback(on_tick), start, state["timer"], _OPEN_FIGS[sym].
Started(L, sym) ==
    [L EXCEPT !.timers = Append(@, TRUE),
              !.state.timer = Len(L.timers) + 1,
              !.figs = [s \in DOMAIN @ \cup {sym} |->
                           IF s = sym THEN Len(L.timers) + 1 ELSE @[s]]]

\* The first class of strategies_to_try with this label, None without one.
PickFor(strategies_to_try, label) ==
    IF \E i \in DOMAIN strategies_to_try :
          _label_for_strategy_class(strategies_to_try[i]) = label
    THEN strategies_to_try[
             CHOOSE i \in DOMAIN strategies_to_try :
                /\ _label_for_strategy_class(strategies_to_try[i]) = label
                /\ \A j \in 1..(i - 1) :
                      _label_for_strategy_class(strategies_to_try[j]) # label]
    ELSE "None"

ModeFor(label) == IF label = "[All]" THEN "all" ELSE "best"

NoTick == Did(0, "none")

Paused(L, frame) ==
    [L EXCEPT !.stack = Append(@, frame), !.last = NoTick]

Resumed(L) ==
    [L EXCEPT !.stack = SubSeq(@, 1, Len(@) - 1), !.last = NoTick]

\* _apply from the click to the plt.pause of _draw_first; it ends at once
\* when _load_history raises.
_apply ==
    /\ Dispatching
    /\ CanApply
    /\ \/ live' = [ResetRaised(Stopped(live), live.pending.symbol,
                                ModeFor(live.pending.strategy))
                       EXCEPT !.last = NoTick]
       \/ \E end \in live.state.last_ts..LastBar, px \in live.quotes :
             live' = Paused(_reset_runtime(
                                Stopped(live), live.pending.symbol,
                                PickFor(live.args.strategies_to_try,
                                        live.pending.strategy),
                                ModeFor(live.pending.strategy),
                                History(end, px)),
                            "_apply")
    /\ UNCHANGED <<runs, search, client, ind, viewer>>

\* _apply after the pause: the new timer.  On a window that was closed
\* during the pause new_timer may raise.
ApplyResume ==
    /\ live.stack # <<>> /\ Last(live.stack) = "_apply"
    /\ \/ live' = Resumed(Started(live, live.state.symbol))
       \/ /\ live.pc = "closed"
          /\ live' = Resumed(live)
    /\ UNCHANGED <<runs, search, client, ind, viewer>>

\* run_live after its first _draw_first: the timer, then the close handler
\* is connected and plt.show blocks.
Start ==
    /\ live.stack # <<>> /\ Last(live.stack) = "run_live"
    /\ live' = Resumed(Started(live, live.args.symbol))
    /\ UNCHANGED <<runs, search, client, ind, viewer>>

Connected(L) == \A i \in DOMAIN L.stack : L.stack[i] # "run_live"

\* The window is closed; _on_close runs once it is connected.
_on_close ==
    /\ Dispatching
    /\ live' =
          IF Connected(live)
          THEN [Stopped(live) EXCEPT
                   !.figs = [s \in DOMAIN @ \ {live.state.symbol} |-> @[s]],
                   !.pc = "closed", !.last = NoTick]
          ELSE [live EXCEPT !.pc = "closed", !.last = NoTick]
    /\ UNCHANGED <<runs, search, client, ind, viewer>>

\* The arguments of the calls of run_live the model makes.
RunLiveArgs(symbols, strategies_to_try, live_mode) ==
    [symbol |-> symbols[1], symbols |-> symbols,
     strategies_to_try |-> strategies_to_try, live_mode |-> live_mode]

LiveArgs ==
    {RunLiveArgs(<<"BTCUSDT">>, <<"TrendStrategy">>, "best"),
     RunLiveArgs(<<"BTCUSDT">>, <<"TrendStrategy", "DonchianBreakout">>,
                 "all"),
     RunLiveArgs(<<"BTCUSDT", "ETHUSDT">>, <<"TrendStrategy">>, "best")}

\* The closes the exchange quotes during one run.
LiveQuotes == {{FInt(9)}}

\* run_live up to the plt.pause of its first _draw_first.
Launched(args, quotes, df) ==
    Paused(_reset_runtime(
               [pc |-> "open", args |-> args, quotes |-> quotes,
                state |-> [symbol |-> args.symbol, mode |-> args.live_mode,
                           strats |-> <<>>, broker |-> BinanceBroker,
                           df |-> <<>>, last_ts |-> 0, bars_since_opt |-> 0,
                           timer |-> 0],
                pending |-> [symbol |-> args.symbol,
                             strategy |->
                                 IF args.live_mode = "all" THEN "[All]"
                                 ELSE _label_for_strategy_class(
                                          args.strategies_to_try[1])],
                timers |-> <<>>,
                figs |-> [s \in {args.symbol} |-> 0],
                stack |-> <<>>,
                last |-> NoTick],
               args.symbol,
               IF args.live_mode = "all" THEN "None"
               ELSE args.strategies_to_try[1],
               args.live_mode, df),
           "run_live")

InitLive ==
    /\ runs = <<>>
    /\ search = NoSearch
    /\ client = NoClient
    /\ ind = NoCall
    /\ viewer = NoViewer
    /\ \E args \in LiveArgs, quotes \in LiveQuotes :
          \E px \in quotes :
             live = Launched(args, quotes, History(hist_bars, px))

NextLive ==
    \/ \E t \in 1..MaxTimers : on_tick(t)
    \/ \E val \in {"BTCUSDT", "ETHUSDT"} : _on_symbol_change(val)
    \/ \E val \in {"[All]", "Trend", "DonchianBreakout"} : _on_strategy_change(val)
    \/ _apply
    \/ ApplyResume
    \/ Start
    \/ _on_close

SpecLive == InitLive /\ [][NextLive]_vars
(***************************************************************************)
(* Properties of the live loop.                                            *)
(***************************************************************************)
\* The last callback was an on_tick that fetched a bar.
AfterTick == live.pc # "none" /\ live.last.out # "none"

Alternates(trades) ==
    \A i \in DOMAIN trades :
       trades[i].side = IF i % 2 = 1 THEN "BUY" ELSE "SELL"

BrokerLong == FGt(live.state.broker.position, Zero)

StrategyLong == FGt(live.state.strats[1].position, Zero)

TickStep ==
    /\ live.pc # "none"
    /\ live'.last.out # "none"
    /\ live'.last # live.last \/ live'.state # live.state

\* The tick of the step worked on its bar: it did not return at line 212.
Processed == TickStep /\ live'.last.out # "stale"

\* The strategy after is the strategy before stepped once, on the bar ts.
SteppedOnce(before, after, ts) ==
    /\ after.sid = before.sid /\ after.cls = before.cls
    /\ after.par = before.par
    /\ Len(after.equity_series) = Len(before.equity_series) + 1
    /\ SubSeq(after.equity_series, 1, Len(before.equity_series))
          = before.equity_series
    /\ Last(after.equity_series).ts = ts

\* The strategy a is the strategy b stepped once, the same for a whole list.
AllSteppedOnce(before, after, ts) ==
    /\ Len(after) = Len(before)
    /\ \A i \in DOMAIN before : SteppedOnce(before[i], after[i], ts)

ReoptimisedNow == live'.last.out = "reopt"

C35_Step ==
    /\ (TickStep /\ live'.last.out = "stale")
          => /\ live'.last.ts <= live.state.last_ts
             /\ live'.state = live.state
    /\ Processed
          => /\ live'.last.ts > live.state.last_ts
             /\ live'.state.last_ts = live'.last.ts
             /\ Last(live'.state.df).ts = live'.last.ts
             /\ ~ReoptimisedNow
                   => AllSteppedOnce(live.state.strats, live'.state.strats,
                                     live'.last.ts)
    /\ (live.pc # "none" /\ live'.stack = live.stack
           /\ live'.state.last_ts # live.state.last_ts)
          => live'.state.last_ts > live.state.last_ts

C35_History == live.pc # "none" => Len(live.state.df) <= hist_bars

\* C35: each bar is processed at most once.  An on_tick whose bar is not
\* newer than last_ts changes nothing of the state; one with a newer bar
\* steps every strategy exactly once with that bar and sets last_ts to it;
\* so between two resets last_ts only grows, and the history kept never
\* has more than hist_bars rows.
C35_EachBarOnce == []C35_History /\ [][C35_Step]_vars

\* A stale tick after a processed bar, two strategies stepped on that bar,
\* the history rolled forward.
C35_Witness ==
    /\ live.pc # "none"
    /\ live.last.out = "stale" /\ live.last.ts = live.state.last_ts
    /\ Len(live.state.df) = hist_bars /\ live.state.df[1].ts > 1
    /\ Len(live.state.strats) = 2
    /\ \A i \in DOMAIN live.state.strats :
          /\ live.state.strats[i].equity_series # <<>>
          /\ Last(live.state.strats[i].equity_series).ts = live.state.last_ts

\* The instance _reopt_short builds in place of s: same class, same sid,
\* parameters of the class's grid, fee 0.001, nothing on its ledger.
FreshFor(s, after, train) ==
    \E p \in LiveGrid(s.cls, train) :
       after = NewStrategy(s.sid, [cls |-> s.cls, par |-> p,
                                   fee |-> FeeDefault])

C36_Step ==
    Processed
       => /\ live'.last.out \in {"reopt", "reopt_failed"}
                <=> live.state.bars_since_opt + 1 >= reopt_every
          /\ live'.state.bars_since_opt =
                IF live.state.bars_since_opt + 1 >= reopt_every THEN 0
                ELSE live.state.bars_since_opt + 1
          /\ live'.last.out = "reopt"
                => /\ Len(live'.state.strats) = Len(live.state.strats)
                   /\ \A i \in DOMAIN live.state.strats :
                         FreshFor(live.state.strats[i], live'.state.strats[i],
                                  live'.state.df)
          /\ live'.last.out = "reopt_failed"
                => AllSteppedOnce(live.state.strats, live'.state.strats,
                                  live'.last.ts)
          /\ live'.timers = live.timers
          /\ live'.state.timer = live.state.timer
          /\ live'.pc = live.pc

C36_Counted == live.pc # "none" => live.state.bars_since_opt < reopt_every

Running == {t \in DOMAIN live.timers : live.timers[t]}

\* C37: at every moment at most one tick timer of the window is running,
\* and it is the timer of state; while _apply has the runtime state in
\* hand, up to the start of its new timer, no timer is running, so no
\* on_tick fires; once the window is closed no timer is running and the
\* window's current symbol is not in the registry of open windows.
C37_OneTimer ==
    live.pc # "none"
       => /\ Cardinality(Running) <= 1
          /\ Running \subseteq {live.state.timer}
          /\ (\E i \in DOMAIN live.stack : live.stack[i] = "_apply")
                => Running = {}
          /\ (live.pc = "closed" /\ live.stack = <<>>)
                => /\ Running = {}
                   /\ live.state.symbol \notin DOMAIN live.figs

=============================================================================
